---- MODULE Spec2Model ----
(***************************************************************************)
(* Model of the remote-control session transport core:                     *)
(*   internal/websocket/flow.go    the credit-based flow controller        *)
(*   internal/websocket/server.go  the websocket bridge (Server)           *)
(* The bridge is modelled at the granularity of its critical sections:     *)
(* one action per region executed under connMu / flowMu, and a begin and   *)
(* an end step for every frame written to a client socket, so that writes  *)
(* by different goroutines to the same socket can be seen to overlap.      *)
(* Pings and close frames go out with conn.WriteControl, which gorilla     *)
(* allows concurrently with any other call, so they are not write steps.   *)
(*                                                                         *)
(*   internal/app (runServer)      the supervisor of one session           *)
(*   internal/runtime/state.go     the session record on disk              *)
(* server.go is the revision with flow control (its second half); the      *)
(* token expiry, the access code, the prefs frame and the origin policy,   *)
(* which only tests and callers of that file show, follow the written      *)
(* specification.                                                          *)
(*                                                                         *)
(* The supervisor is modelled by the position of runServer's main          *)
(* goroutine (start of the children, the select, the deferred calls in     *)
(* their order), the listener, terminal waiter and idle ticker goroutines, *)
(* the event channel, and the state it keeps with its copy on disk.        *)
(*                                                                         *)
(* The registry is modelled by the runtime directory, file by file, with   *)
(* the text of each file token by token: SaveSession writes a temporary    *)
(* file piece by piece and renames it, the readers read one file at a      *)
(* time.  The Terminal and the tunnel Handle are modelled by their child   *)
(* process, their descriptor and the sync.Once that guards Close / Stop.   *)
(* The terminal on a tty path, which only a test shows, follows the        *)
(* written specification.                                                  *)
(*                                                                         *)
(* Specifications:                                                         *)
(*   Spec        the output path: handshakes by token, acks, the pty pump  *)
(*   SpecAdmit   admission and removal: any client frame, Close            *)
(*   SpecAuth    the handshake: any frames, expiry, access code, clock     *)
(*   SpecFlow    the flow controller under any sequence of calls           *)
(*   SpecOrigin  the origin check on its own                               *)
(*   SpecSup     the supervisor with its children, without idle timeout    *)
(*   SpecIdle    the supervisor with the idle ticker and a clock, fair     *)
(*   SpecProc    Close / Stop callers and the Wait goroutine of a          *)
(*               Terminal and a tunnel Handle, with their sync.Once        *)
(*   SpecRead    the read deadline of a connection, with a clock, fair     *)
(*   SpecBreak   the output path with a client whose network path fails    *)
(*   SpecFrames  clients that send two frames each, some of them ignored   *)
(*   SpecSave    sessions saving their records while a command reads them  *)
(*   SpecPrune   sessions that save, end or are killed, then two prunes    *)
(*   SpecTrip    SaveSession then LoadSession of one state, any id         *)
(*   SpecNew     newFlowController on any pair of watermarks               *)
(*   SpecEnd     the output path with clients that may leave, fair         *)
(*   SpecGreet   the output path with clients that record every frame      *)
(*   SpecAck     the output path with clients acknowledging anything       *)
(*   SpecOrder   the same with clients that record the flow frames         *)
(***************************************************************************)
EXTENDS Integers, Sequences, FiniteSets, TLC

\* ---------------------------------------------------------------- bounds
NumConns == 2        \* connections that ever dial the bridge
MaxChunks == 2       \* chunks the pty ever returns to the read pump
MaxMsgs == 1         \* post-auth frames each client sends
MaxTime == 2         \* clock ticks

\* ------------------------------------------------------ program constants
DefaultLow == 524288          \* 512 * 1024
DefaultHigh == 2097152        \* 2 * 1024 * 1024
ClosePolicyViolation == 1008  \* gws.ClosePolicyViolation
CloseTryAgainLater == 1013    \* gws.CloseTryAgainLater
CloseNormalClosure == 1000    \* gws.CloseNormalClosure
DefaultReadTimeout == 90      \* 90 * time.Second

Conns == 1..NumConns

\* ------------------------------------------------------- flow controller
flowEventNone == "none"
flowEventPause == "pause"
flowEventResume == "resume"

\* newFlowController(low, high)
newFlowControllerNoFloor(low, high) ==
  LET l1 == IF low <= 0 THEN DefaultLow ELSE low
      h1 == IF high <= 0 THEN DefaultHigh ELSE high
      l2 == IF l1 > h1 THEN h1 \div 2 ELSE l1
  IN [low |-> l2, high |-> h1, pending |-> 0, paused |-> FALSE]

newFlowController(low, high) ==
  LET l1 == IF low <= 0 THEN DefaultLow ELSE low
      h1 == IF high <= 0 THEN DefaultHigh ELSE high
      l2 == IF l1 > h1
              THEN (IF h1 \div 2 <= 0 THEN 1 ELSE h1 \div 2)
              ELSE l1
  IN [low |-> l2, high |-> h1, pending |-> 0, paused |-> FALSE]

\* flowController.onSent: the controller after the call
onSentWithoutPause(f, n) ==
  IF n <= 0 THEN f ELSE [f EXCEPT !.pending = f.pending + n]

onSent(f, n) ==
  IF n <= 0 THEN f
  ELSE LET p == f.pending + n
       IN IF ~f.paused /\ p > f.high
            THEN [f EXCEPT !.pending = p, !.paused = TRUE]
            ELSE [f EXCEPT !.pending = p]

\* flowController.onSent: the event returned
onSentEventNeverPauses(f, n) == flowEventNone

onSentEvent(f, n) ==
  IF n > 0 /\ ~f.paused /\ f.pending + n > f.high
    THEN flowEventPause ELSE flowEventNone

\* flowController.onAck: the controller after the call
onAckStrictlyBelowLow(f, n) ==
  IF n <= 0 THEN f
  ELSE LET p0 == f.pending - n
           p == IF p0 < 0 THEN 0 ELSE p0
       IN IF f.paused /\ p < f.low
            THEN [f EXCEPT !.pending = p, !.paused = FALSE]
            ELSE [f EXCEPT !.pending = p]

onAck(f, n) ==
  IF n <= 0 THEN f
  ELSE LET p0 == f.pending - n
           p == IF p0 < 0 THEN 0 ELSE p0
       IN IF f.paused /\ p <= f.low
            THEN [f EXCEPT !.pending = p, !.paused = FALSE]
            ELSE [f EXCEPT !.pending = p]

\* flowController.onAck: the event returned
onAckEvent(f, n) ==
  IF n <= 0 THEN flowEventNone
  ELSE LET p0 == f.pending - n
           p == IF p0 < 0 THEN 0 ELSE p0
       IN IF f.paused /\ p <= f.low THEN flowEventResume ELSE flowEventNone

\* flowController.reset
reset(f) == [f EXCEPT !.pending = 0, !.paused = FALSE]

\* ------------------------------------------------------------ goroutines
H(c) == <<"h", c>>            \* the HandleWS goroutine of connection c
Pump == <<"pump", 0>>         \* readTerminalLoop
Closer == <<"close", 0>>      \* the caller of Close
NoOne == <<"none", 0>>
Broadcasters == {H(c) : c \in Conns} \cup {Pump}

\* ------------------------------------------------------------------ frames
\* a frame: its type, the chunk id of a binary frame, the message of a text
\* frame (without the emoji the bridge puts in front of it)
Bin(k) == [t |-> "bin", id |-> k, msg |-> ""]
Txt(t, m) == [t |-> t, id |-> 0, msg |-> m]

\* the frame types, and those a client sees only after its handshake reply
TextTypes == {"auth_ok", "auth_error", "prefs", "readonly", "info", "pong",
              "flow_pause", "flow_resume"}

\* the prefs frame: the ack quantum hint
Prefs(bytes) == [t |-> "prefs", id |-> 0, msg |-> "", bytes |-> bytes]

\* ----------------------------------------------------------- origin policy
\* Header values are sequences of lexical tokens: a scheme, "://", a host
\* name (in brackets when it is an IPv6 literal), ":", a port, " ".
Schemes == {"http", "https"}

\* strings.ToLower on the host names used here
ToLower(h) ==
  CASE h = "ABC123.TryCloudflare.com" -> "abc123.trycloudflare.com"
    [] h = "LOCALHOST" -> "localhost"
    [] h = "LocalHost.Evil.com" -> "localhost.evil.com"
    [] OTHER -> h

\* the host name without the brackets of an IPv6 literal
StripBrackets(h) ==
  CASE h = "[::1]" -> "::1"
    [] OTHER -> h

RECURSIVE TrimLeft(_)
TrimLeft(s) ==
  IF s # <<>> /\ Head(s) = " " THEN TrimLeft(Tail(s)) ELSE s

RECURSIVE TrimRight(_)
TrimRight(s) ==
  IF s # <<>> /\ s[Len(s)] = " " THEN TrimRight(SubSeq(s, 1, Len(s) - 1)) ELSE s

\* strings.TrimSpace
TrimSpace(s) == TrimRight(TrimLeft(s))

\* url.Parse followed by URL.Hostname(): [ok, host]
parseOrigin(o) ==
  IF Len(o) >= 3 /\ o[1] \in Schemes /\ o[2] = "://"
       /\ (Len(o) = 3 \/ (Len(o) = 5 /\ o[4] = ":"))
    THEN [ok |-> TRUE, host |-> StripBrackets(o[3])]
    ELSE IF Len(o) = 1 /\ o[1] \notin Schemes /\ o[1] # "://"
      THEN [ok |-> TRUE, host |-> ""]       \* a relative reference: no host
      ELSE [ok |-> FALSE, host |-> ""]

\* parseHostname: the Host header without its port, lower-cased
parseHostname(h) ==
  IF h = <<>> THEN "" ELSE ToLower(StripBrackets(h[1]))

\* isOriginAllowed, accepting any lower-case match of the loopback names
isOriginAllowedBySubstring(origin, host) ==
  LET o == TrimSpace(origin)
  IN IF o = <<>> THEN TRUE
     ELSE \E i \in 1..Len(o) :
            ToLower(o[i]) \in {"localhost", "127.0.0.1", "localhost.evil.com"}

isOriginAllowed(origin, host) ==
  LET o == TrimSpace(origin)
      u == parseOrigin(o)
      oh == ToLower(u.host)
  IN IF o = <<>> THEN TRUE
     ELSE IF ~u.ok \/ oh = "" THEN FALSE
     ELSE \/ oh = parseHostname(host)
          \/ oh \in {"localhost", "127.0.0.1", "::1"}

\* upgrader.CheckOrigin
CheckOrigin(origin, host) == isOriginAllowed(origin, host)

OriginHeaders ==
  { <<>>, <<" ">>,
    <<"https", "://", "abc123.trycloudflare.com">>,
    <<"https", "://", "ABC123.TryCloudflare.com", ":", "8443">>,
    <<" ", "https", "://", "abc123.trycloudflare.com", " ">>,
    <<"https", "://", "127.0.0.1", ":", "8080">>,
    <<"http", "://", "localhost", ":", "3000">>,
    <<"http", "://", "LOCALHOST">>,
    <<"http", "://", "[::1]", ":", "3000">>,
    <<"https", "://", "evil.example.com">>,
    <<"https", "://", "LocalHost.Evil.com">>,
    <<"://", "bad">>,
    <<"evil.example.com">> }

HostHeaders ==
  { <<"abc123.trycloudflare.com">>,
    <<"ABC123.TryCloudflare.com", ":", "443">>,
    <<"127.0.0.1", ":", "8080">>,
    <<"[::1]", ":", "8080">>,
    <<"other.example.com">>,
    <<"evil.example.com", ":", "443">> }

\* ------------------------------------------------------------ construction
TheToken == "tok"
TheCode == "k"

\* New: the Server fields fixed at construction
New(token, opts) ==
  [token |-> token,
   readonly |-> opts.ReadOnly,
   maxClient |-> IF opts.MaxClients <= 0 THEN 1 ELSE opts.MaxClients,
   tokenExpiresAt |-> opts.TokenExpiresAt,
   accessCode |-> opts.AccessCode,
   ackQuantum |-> opts.AckQuantumBytes,
   clientReadTimeout |-> IF opts.ClientReadTimeout <= 0 THEN DefaultReadTimeout
                         ELSE opts.ClientReadTimeout]

\* ----------------------------------------------------------- authentication
AuthFrame(kind, type, token, code, cols, rows) ==
  [kind |-> kind, type |-> type, token |-> token, code |-> code,
   cols |-> cols, rows |-> rows]

\* what a client may send as a handshake frame; kind "none" is a read that
\* fails (deadline or socket error)
AuthFrames ==
  { AuthFrame("none", "", "", "", 0, 0),
    AuthFrame("binary", "", "", "", 0, 0),
    AuthFrame("badjson", "", "", "", 0, 0),
    AuthFrame("text", "input", TheToken, "", 0, 0),
    AuthFrame("text", " Auth ", TheToken, TheCode, 0, 0) }
  \cup { AuthFrame("text", "auth", tk, cd, d[1], d[2]) :
           tk \in {TheToken, "bad"}, cd \in {"", TheCode, "x"},
           d \in {<<0, 0>>, <<80, 24>>} }

\* what a client may send as the second handshake frame
SecondFrames ==
  { AuthFrame("text", "input", "", TheCode, 0, 0) }
  \cup { AuthFrame("text", "auth", "", cd, 0, 0) : cd \in {"", TheCode, "x"} }

NoSecondFrame == AuthFrame("text", "auth", "", "", 0, 0)

TokenFrames ==
  { AuthFrame("text", "auth", TheToken, "", 80, 24),
    AuthFrame("text", "auth", "bad", "", 80, 24) }

\* subtle.ConstantTimeCompare
ConstantTimeCompare(a, b) == IF a = b THEN 1 ELSE 0

\* tokenExpired(expiresAt, now): the zero time (0) never expires
tokenExpired(expiresAt, t) == expiresAt # 0 /\ ~(t < expiresAt)

\* the access-code rule of the handshake: "" when the code is not required or
\* matches, taken from the first frame or, when that carries none, from a
\* second auth frame
accessCodeError(code, f1, f2) ==
  IF code = "" THEN ""
  ELSE LET got == IF f1.code # "" THEN f1.code
                  ELSE IF f2.kind = "text" /\ f2.type = "auth" THEN f2.code
                  ELSE ""
       IN IF ConstantTimeCompare(got, code) # 1 THEN "invalid code" ELSE ""

\* Server.authenticate: the error returned ("" for nil)
authenticate(s, f1, f2, t) ==
  IF f1.kind = "none" THEN "i/o timeout"
  ELSE IF f1.kind = "binary" THEN "expected auth message"
  ELSE IF f1.kind = "badjson" THEN "invalid auth payload"
  ELSE IF f1.type # "auth" THEN "auth required"
  ELSE IF tokenExpired(s.tokenExpiresAt, t) THEN "token expired"
  ELSE IF ConstantTimeCompare(f1.token, s.token) # 1 THEN "invalid token"
  ELSE accessCodeError(s.accessCode, f1, f2)

\* Terminal.Resize: the window size after the call
Resize(size, cols, rows) ==
  IF cols <= 0 \/ rows <= 0 THEN size ELSE <<cols, rows>>

\* HandleWS: the connection goes on to addConn only when authenticate
\* returned nil
authPassedIgnoringError(err) == TRUE

authPassedOnCodeError(err) == err \in {"", "invalid code"}

authPassedOnTokenError(err) == err \in {"", "invalid token"}

authPassed(err) == err = ""

\* Server.addConn: whether the connection is admitted
addConnWithoutCap(cs, max) == TRUE

addConnOffByOne(cs, max) == ~(Cardinality(cs) > max)

addConn(cs, max) == ~(Cardinality(cs) >= max)

\* Server.removeConn: the count it passes to the callback, len(s.conns)
\* after the delete
connCountBeforeDelete(cs, c) == Cardinality(cs)

connCount(cs, c) == Cardinality(cs \ {c})

\* ------------------------------------------------- the supervisor's callback
\* the OnClientCountChange closure of runServer: state after the call at
\* time t. Times are clock readings, 0 the zero time.
onClientCountChangeKeepsDeadline(st, idleTimeout, count, t) ==
  [st EXCEPT !.ClientCount = count,
             !.IdleDeadline = IF idleTimeout > 0 /\ count = 0 THEN t + idleTimeout
                              ELSE st.IdleDeadline]

onClientCountChange(st, idleTimeout, count, t) ==
  [st EXCEPT !.ClientCount = count,
             !.IdleDeadline = IF idleTimeout > 0
                                THEN (IF count = 0 THEN t + idleTimeout ELSE 0)
                                ELSE st.IdleDeadline]

\* --------------------------------------------------------- client messages
ClientMsg(kind, type, data, cols, rows, bytes) ==
  [kind |-> kind, type |-> type, data |-> data, cols |-> cols, rows |-> rows,
   bytes |-> bytes]

AckValues == {-1, 1, 3}

ClientMsgs ==
  { ClientMsg("binary", "", "", 0, 0, 0),
    ClientMsg("badjson", "", "", 0, 0, 0),
    ClientMsg("text", "input", "ls", 0, 0, 0),
    ClientMsg("text", " Input ", "ls", 0, 0, 0),
    ClientMsg("text", "input", "", 0, 0, 0),
    ClientMsg("text", "resize", "", 100, 40, 0),
    ClientMsg("text", "resize", "", 0, 40, 0),
    ClientMsg("text", "ping", "", 0, 0, 0),
    ClientMsg("text", "pong", "", 0, 0, 0),
    ClientMsg("text", "bogus", "", 0, 0, 0) }
  \cup { ClientMsg("text", "ack", "", 0, 0, b) : b \in AckValues }

FlowMsgs ==
  { ClientMsg("text", "ack", "", 0, 0, b) : b \in {1, 3} }

\* strings.ToLower(strings.TrimSpace(msg.Type))
NormType(t) ==
  CASE t = " Input " -> "input"
    [] OTHER -> t

\* handleClientMessage: what the switch does with a decoded message
handleClientMessageInputUnchecked(s, m) ==
  LET ty == NormType(m.type)
  IN CASE ty = "input" -> "write"
       [] ty = "resize" -> "resize"
       [] ty = "ping" -> "pong"
       [] ty = "ack" -> "ack"
       [] OTHER -> "ignore"

handleClientMessageResizeChecked(s, m) ==
  LET ty == NormType(m.type)
  IN CASE ty = "input" -> IF s.readonly THEN "blocked" ELSE "write"
       [] ty = "resize" -> IF s.readonly THEN "blocked" ELSE "resize"
       [] ty = "ping" -> "pong"
       [] ty = "ack" -> "ack"
       [] OTHER -> "ignore"

handleClientMessageDefaultInput(s, m) ==
  LET ty == NormType(m.type)
  IN CASE ty = "input" -> IF s.readonly THEN "blocked" ELSE "write"
       [] ty = "resize" -> "resize"
       [] ty = "ping" -> "pong"
       [] ty = "ack" -> "ack"
       [] ty = "pong" -> "ignore"
       [] OTHER -> IF s.readonly THEN "blocked" ELSE "write"

handleClientMessage(s, m) ==
  LET ty == NormType(m.type)
  IN CASE ty = "input" -> IF s.readonly THEN "blocked" ELSE "write"
       [] ty = "resize" -> "resize"
       [] ty = "ping" -> "pong"
       [] ty = "ack" -> "ack"
       [] OTHER -> "ignore"

VARIABLES
  fc,        \* a stand-alone flowController driven by SpecFlow
  fcEv,      \* the event its last call returned
  fcOp,      \* the last call made on it: [op, arg, k], k the number of calls
  oq,        \* an origin check driven by SpecOrigin: [origin, host, done, ok]
  proc,      \* per Terminal / tunnel Handle: its child, its fd, its calls
  once,      \* per Terminal / tunnel Handle: its sync.Once, [done, m]
  call,      \* per caller of Close / Stop: [pc, obj, n, retErr, after, ran]
  wait,      \* the goroutine calling Terminal.Wait: [pc, closeCalled, err]
  dir,       \* the runtime directory: per file name [exists, data]
  sess,      \* per session process: [alive, pc, ver, buf, saves]
  reader,    \* a status/stop command reading the registry
  pruner,    \* the calls of PruneStaleSessions a command has made
  srv,       \* Server fields fixed by New: token, readonly, maxClient, ...
  now,       \* the clock
  rd,        \* per socket: its read deadline (0 none), when the last frame
             \* or pong was delivered, whether a read timed out
  conns,     \* s.conns
  flow,      \* s.flow
  ctxDone,   \* s.ctx cancelled
  writeMu,   \* holder of s.writeMu, or NoOne
  hpc,       \* position of each HandleWS goroutine
  hin,       \* handshake frames in flight to the handler: <<first, second>>
  hmsgs,     \* post-auth frames each client has sent so far
  hinput,    \* input messages each handler has taken from its client
  hrm,       \* removeConn's local connCount
  authed,    \* authenticate returned nil for the connection
  ppc,       \* position of readTerminalLoop
  chunksRead,\* chunks read from the pty so far
  pcur,      \* the pump's current read: [id, n, err]
  psent,     \* broadcastBinary's local sentBytes
  bsnap,     \* per broadcasting goroutine: snapshot targets still to be written
  bcur,      \* per broadcasting goroutine: target of the write in progress, or 0
  bframe,    \* per broadcasting goroutine: the frame being broadcast
  cpc,       \* position of Close
  sockOk,    \* the socket still accepts writes (not closed, no write error)
  broken,    \* per socket: the network path is gone, a write to it fails
  writing,   \* per socket: goroutines inside a write call on it
  torn,      \* per socket: overlapping writes have corrupted its stream
  obs,       \* the frame types the observer of the sockets records
  recv,      \* per socket: recorded frames written to it, in order
  closeCode, \* per socket: close code sent to it, 0 if none
  cbLast,    \* the count last passed to onClientCountChange, -1 before any call
  cbBy,      \* the goroutines that have called onClientCountChange
  ptyIn,     \* WriteInput calls that reached the pty
  ptySize,   \* last window size applied to the pty
  opt,       \* runServer's launchOptions: idleTimeout, enableTunnel, ...
  state,     \* runServer's state: ClientCount, IdleDeadline (0 the zero time)
  disk,      \* the runtime record of the session id exists on disk
  mpc,       \* position of runServer and of its caller
  exitCode,  \* runServer's exitCode
  cause,     \* what ended runServer's select: "" before, a signal or an event
  eventCh,   \* runServer's eventCh: the events sent and not yet received
  sigCh,     \* a signal is pending on sigCh
  lpc,       \* the goroutine of srv.ListenAndServe: serving, failed, closed
  wpc,       \* the goroutine of term.Wait: waiting, sent
  tpc,       \* position of the idle ticker goroutine
  tread,     \* the ticker's local clientCount and idleDeadline
  managed,   \* runServer's managed children, in the order they were started
  stopped,   \* the managed children stopped so far, in order
  runCtxDone,\* runCtx cancelled
  ptyOpen,   \* the terminal has not been closed
  shareURL   \* the base of runServer's shareURL: "local" or "public"

flowVars == <<fc, fcEv, fcOp>>
procVars == <<proc, once, call, wait>>
regVars == <<dir, sess, reader, pruner>>
objVars == <<procVars, regVars>>
pureVars == <<fc, fcEv, fcOp, oq, objVars>>
hLoc == <<hpc, hin, hmsgs, hinput, hrm, authed>>
pLoc == <<ppc, chunksRead, pcur, psent>>
bLoc == <<bsnap, bcur, bframe>>
wireVars == <<writing, torn, recv>>
ptyVars == <<ptyIn, ptySize>>
cbVars == <<cbLast, cbBy>>
bridgeVars == <<obs, srv, rd, broken, now, conns, flow, ctxDone, writeMu, hLoc, pLoc, bLoc, cpc,
                sockOk, wireVars, closeCode, cbVars, ptyVars>>
mainVars == <<mpc, exitCode, cause, managed, stopped, runCtxDone, ptyOpen, shareURL>>
chanVars == <<eventCh, sigCh, lpc, wpc>>
tickVars == <<tpc, tread>>
supLoc == <<opt, mainVars, chanVars, tickVars>>
supVars == <<state, disk, supLoc>>
vars == <<pureVars, bridgeVars, supVars>>

\* ------------------------------------------------------------------- Init
\* the options of the bridges whose handshake is explored
AuthOptions ==
  [ReadOnly : BOOLEAN, MaxClients : {1}, TokenExpiresAt : {0, 2},
   AccessCode : {"", TheCode}, LowWatermarkBytes : {1},
   HighWatermarkBytes : {2}, AckQuantumBytes : {0, 4}, ClientReadTimeout : {0}]

\* the options of the bridges whose admissions and removals are explored
AdmitOptions ==
  [ReadOnly : BOOLEAN, MaxClients : {-1, 0, 1, 2}, TokenExpiresAt : {0},
   AccessCode : {""}, LowWatermarkBytes : {1}, HighWatermarkBytes : {2},
   AckQuantumBytes : {4}, ClientReadTimeout : {0}]

\* the options of the bridges whose output path is explored: read-write,
\* room for every connection, a token that never expires, no access code
OutputOptions ==
  [ReadOnly : {FALSE}, MaxClients : {2}, TokenExpiresAt : {0},
   AccessCode : {""}, LowWatermarkBytes : {1}, HighWatermarkBytes : {2},
   AckQuantumBytes : {4}, ClientReadTimeout : {0}]

NoFrame == Txt("", "")

\* runServer up to its select, for the launch options in Options: the
\* session state and its record on disk (SaveSession), the listener, the
\* terminal waiter and, with an idle timeout, the idle ticker
SupInit(Options) ==
  /\ \E o \in Options :
       /\ opt = o
       /\ state = [ClientCount |-> 0,
                   IdleDeadline |-> IF o.idleTimeout > 0 THEN 1 + o.idleTimeout ELSE 0,
                   URL |-> "local", PublicURL |-> ""]
       /\ tpc = IF o.idleTimeout > 0 THEN "wait" ELSE "done"
  /\ disk = TRUE
  /\ mpc = "tunnel"
  /\ exitCode = 0
  /\ cause = ""
  /\ eventCh = <<>>
  /\ sigCh = FALSE
  /\ lpc = "serving"
  /\ wpc = "waiting"
  /\ tread = [clientCount |-> 0, idleDeadline |-> 0]
  /\ managed = <<>>
  /\ stopped = <<>>
  /\ runCtxDone = FALSE
  /\ ptyOpen = TRUE
  /\ shareURL = "local"

\* a supervisor without idle timeout, tunnel or keep-awake helper
PlainOptions ==
  [idleTimeout : {0}, enableTunnel : {FALSE}, tunnelRequired : {FALSE},
   enableCaffeinate : {FALSE}]

\* the objects a session owns besides its bridge
Objs == {"term", "tun"}
Callers == 1..2

\* a Terminal and a tunnel Handle that nothing calls
ProcIdle ==
  /\ proc = [o \in Objs |-> [mode |-> "cmd", child |-> "running", fd |-> TRUE,
                              kills |-> 0, calls |-> 0, returns |-> 0,
                              errs |-> 0]]
  /\ once = [o \in Objs |-> [done |-> FALSE, m |-> 0]]
  /\ call = [k \in Callers |-> [pc |-> "idle", obj |-> "term", n |-> 0,
                                 retErr |-> FALSE, after |-> FALSE,
                                 ran |-> FALSE]]
  /\ wait = [pc |-> "idle", closeCalled |-> FALSE, err |-> FALSE]

\* --- the runtime registry: file names, records and their JSON text
Sessions == {"a", "b"}
Path(id) ==
  CASE id = "a" -> "a.json" [] id = "b" -> "b.json" [] id = " a " -> " a .json"
    [] OTHER -> "none.json"
\* the name os.CreateTemp(runtimeDir, "session-*.json") gives session s
TempName(s) == IF s = "a" THEN "session-1.json" ELSE "session-2.json"
\* os.ReadDir returns the entries sorted by file name
FileOrder == <<"a.json", "b.json", "session-1.json", "session-2.json">>
Files == {FileOrder[i] : i \in 1..Len(FileOrder)}
NoFile == [exists |-> FALSE, data |-> <<>>]
NoRecord == [id |-> "", pid |-> 0, started |-> 0, updated |-> 0, count |-> 0]

\* an empty runtime directory, sessions that have saved nothing, no reader
RegIdle ==
  /\ dir = [f \in Files |-> NoFile]
  /\ sess = [s \in Sessions |-> [alive |-> TRUE, pc |-> "idle", ver |-> 0,
                                   buf |-> <<>>, saves |-> 0]]
  /\ reader = [pc |-> "idle", op |-> "none", id |-> "",
               lo |-> [s \in Sessions |-> 0],
               entries |-> <<>>, out |-> <<>>, err |-> FALSE, n |-> 0]
  /\ pruner = [n |-> 0, removed |-> <<>>, first |-> <<>>,
               before |-> [f \in Files |-> NoFile],
               after |-> [f \in Files |-> NoFile]]

\* the registry left out of a specification that does not read or write it
RegOff == dir = <<>> /\ sess = <<>> /\ reader = <<>> /\ pruner = <<>>

\* the Terminal and the tunnel Handle left out likewise
ProcOff == proc = <<>> /\ once = <<>> /\ call = <<>> /\ wait = <<>>

ObjIdle == ProcOff /\ RegOff

FlowIdle ==
  /\ fc = newFlowController(0, 0)
  /\ fcEv = flowEventNone
  /\ fcOp = [op |-> "new", arg |-> 0, k |-> 0]

OriginIdle == oq = [origin |-> <<>>, host |-> <<>>, done |-> FALSE, ok |-> FALSE]

PureIdle == FlowIdle /\ OriginIdle /\ ObjIdle

\* a socket without read deadline
NoDeadline == [deadline |-> 0, last |-> 0, timedOut |-> FALSE]

BridgeInitWith(Options, Observed, Launch) ==
  /\ obs = Observed
  /\ SupInit(Launch)
  /\ \E o \in Options :
       /\ srv = New(TheToken, o)
       /\ flow = newFlowController(o.LowWatermarkBytes, o.HighWatermarkBytes)
  /\ now = 1
  /\ rd = [c \in Conns |-> NoDeadline]
  /\ conns = {}
  /\ ctxDone = FALSE
  /\ writeMu = NoOne
  /\ hpc = [c \in Conns |-> "new"]
  /\ hin = [c \in Conns |-> <<>>]
  /\ hmsgs = [c \in Conns |-> 0]
  /\ hinput = [c \in Conns |-> 0]
  /\ hrm = [c \in Conns |-> 0]
  /\ authed = [c \in Conns |-> FALSE]
  /\ ppc = "ctx"
  /\ chunksRead = 0
  /\ pcur = [id |-> 0, n |-> 0, err |-> FALSE]
  /\ psent = 0
  /\ bsnap = [g \in Broadcasters |-> {}]
  /\ bcur = [g \in Broadcasters |-> 0]
  /\ bframe = [g \in Broadcasters |-> NoFrame]
  /\ cpc = "idle"
  /\ sockOk = [c \in Conns |-> TRUE]
  /\ broken = [c \in Conns |-> FALSE]
  /\ writing = [c \in Conns |-> {}]
  /\ torn = [c \in Conns |-> FALSE]
  /\ recv = [c \in Conns |-> <<>>]
  /\ closeCode = [c \in Conns |-> 0]
  /\ cbLast = -1
  /\ cbBy = {}
  /\ ptyIn = {}
  /\ ptySize = <<0, 0>>

\* a bridge whose supervisor has no idle timeout and no children
BridgeInit(Options, Observed) == BridgeInitWith(Options, Observed, PlainOptions)

\* the observer of the output path records the binary frames
Init == PureIdle /\ BridgeInit(OutputOptions, {"bin"})

\* the observer of the handshake records the text frames
InitAdmit == PureIdle /\ BridgeInit(AdmitOptions, TextTypes)

InitAuth == PureIdle /\ BridgeInit(AuthOptions, TextTypes)

\* ------------------------------------------------------- the count callback
\* s.onClientCountChange(count) called by goroutine g: the closure updates
\* the session state and rewrites the runtime record (SaveSession)
Callback(g, count) ==
  /\ cbLast' = count
  /\ cbBy' = cbBy \cup {g}
  /\ state' = onClientCountChange(state, opt.idleTimeout, count, now)
  /\ disk' = TRUE

\* ------------------------------------------------------------ socket writes
\* what the observer has recorded on socket c once frame fr is written to it
\* a write to socket c succeeds
WriteOk(c) == sockOk[c] /\ ~broken[c]

Deliver(c, fr) ==
  IF WriteOk(c) /\ fr.t \in obs THEN Append(recv[c], fr) ELSE recv[c]

\* a goroutine enters a write call on socket c. A write that overlaps another
\* write on the same socket shares the connection's write buffer with it:
\* the bytes on the wire are then those of the frames, or a corrupt stream.
BeginWrite(g, c) ==
  /\ writing' = [writing EXCEPT ![c] = @ \cup {g}]
  /\ \E t \in (IF writing[c] # {} THEN {torn[c], TRUE} ELSE {torn[c]}) :
       torn' = [torn EXCEPT ![c] = t]

\* the write call returns
EndWrite(g, c, fr) ==
  /\ writing' = [writing EXCEPT ![c] = @ \ {g}]
  /\ recv' = [recv EXCEPT ![c] = Deliver(c, fr)]
  /\ UNCHANGED torn

\* -------------------------------------------------------------- HandleWS
\* what the origin check answers to the requests clients make
UpgradeResults == {CheckOrigin(o, h) : o \in OriginHeaders, h \in HostHeaders}

\* upgrader.Upgrade: the origin check; a refused upgrade is answered 403
Upgrade(c) ==
  /\ hpc[c] = "new"
  /\ \A d \in Conns : d < c => hpc[d] # "new"
  /\ \E ok \in UpgradeResults :
       hpc' = [hpc EXCEPT ![c] = IF ok THEN "auth" ELSE "forbidden"]
  /\ UNCHANGED <<pureVars, supVars, obs, srv, rd, broken, now, conns, flow, ctxDone, writeMu, hin, hmsgs, hinput, hrm,
                 authed, pLoc, bLoc, cpc, sockOk, wireVars, closeCode,
                 cbVars, ptyVars>>

\* the client's handshake frames reach the bridge; kind "none" stands for
\* a client that sends nothing before the read fails
ClientAuthWith(c, F1, F2) ==
  /\ hpc[c] = "auth"
  /\ hin[c] = <<>>
  /\ \E f1 \in F1, f2 \in F2 : hin' = [hin EXCEPT ![c] = <<f1, f2>>]
  /\ UNCHANGED <<pureVars, supVars, obs, srv, rd, broken, now, conns, flow, ctxDone, writeMu, hpc,
                 hmsgs, hinput, hrm, authed, pLoc, bLoc, cpc, sockOk, wireVars,
                 closeCode, cbVars, ptyVars>>

\* a handshake with any frames a client may send
ClientAuth(c) == ClientAuthWith(c, AuthFrames, SecondFrames)

\* a handshake with the right or a wrong token and no access code
ClientAuthToken(c) == ClientAuthWith(c, TokenFrames, {NoSecondFrame})

\* authenticate, and the failure branch of HandleWS: auth_error, a
\* policy-violation close, conn.Close. The connection is not in s.conns, so
\* no other goroutine touches its socket.
Authenticate(c) ==
  /\ hpc[c] = "auth"
  /\ hin[c] # <<>>
  /\ hin' = [hin EXCEPT ![c] = <<>>]
  /\ LET f1 == hin[c][1]
         f2 == hin[c][2]
         err == authenticate(srv, f1, f2, now)
     IN IF authPassed(err)
          THEN /\ hpc' = [hpc EXCEPT ![c] = "admit"]
               /\ authed' = [authed EXCEPT ![c] = err = ""]
               /\ ptySize' = IF err = "" THEN Resize(ptySize, f1.cols, f1.rows)
                             ELSE ptySize
               /\ UNCHANGED <<recv, closeCode, sockOk>>
          ELSE /\ hpc' = [hpc EXCEPT ![c] = "done"]
               /\ recv' = [recv EXCEPT ![c] = Deliver(c, Txt("auth_error", err))]
               /\ closeCode' = [closeCode EXCEPT ![c] = ClosePolicyViolation]
               /\ sockOk' = [sockOk EXCEPT ![c] = FALSE]
               /\ UNCHANGED <<authed, ptySize>>
  /\ UNCHANGED <<pureVars, supVars, obs, srv, rd, broken, now, conns, flow, ctxDone, writeMu, hmsgs,
                 hinput, hrm, pLoc, bLoc, cpc, writing, torn, cbVars, ptyIn>>

\* addConn under connMu, and the failure branch of HandleWS: info, a
\* try-again-later close, conn.Close
AddConn(c) ==
  /\ hpc[c] = "admit"
  /\ IF addConn(conns, srv.maxClient)
       THEN /\ conns' = conns \cup {c}
            /\ Callback(H(c), Cardinality(conns \cup {c}))
            /\ hpc' = [hpc EXCEPT ![c] = "greet"]
            /\ rd' = [rd EXCEPT ![c] = [deadline |-> now + srv.clientReadTimeout,
                                        last |-> now, timedOut |-> FALSE]]
            /\ UNCHANGED <<recv, closeCode, sockOk>>
       ELSE /\ hpc' = [hpc EXCEPT ![c] = "done"]
            /\ recv' = [recv EXCEPT ![c] =
                          Deliver(c, Txt("info", "another client is already connected"))]
            /\ closeCode' = [closeCode EXCEPT ![c] = CloseTryAgainLater]
            /\ sockOk' = [sockOk EXCEPT ![c] = FALSE]
            /\ UNCHANGED <<conns, cbVars, state, disk, rd>>
  /\ UNCHANGED <<pureVars, supLoc, obs, srv, broken, now, flow, ctxDone, writeMu, hin, hmsgs,
                 hinput, hrm, authed, pLoc, bLoc, cpc, writing, torn, ptyVars>>

\* the frames HandleWS and handleClientMessage write with conn.WriteMessage
\* directly, without taking writeMu
GreetFrameAlwaysAuthOk(st) == Txt("auth_ok", "")

GreetFrame(st) ==
  CASE st = "w_auth_ok" -> Txt("auth_ok", "")
    [] st = "w_readonly" -> Txt("readonly", "Read-only mode enabled")
    [] st = "w_blocked" -> Txt("readonly", "Input blocked: read-only session")
    [] st = "w_pong" -> Txt("pong", "")

\* HandleWS enters the write of auth_ok, or of the readonly notice after it
HandlerWriteBegin(c) ==
  /\ hpc[c] \in {"greet", "greet_ro"}
  /\ BeginWrite(H(c), c)
  /\ hpc' = [hpc EXCEPT ![c] = IF hpc[c] = "greet" THEN "w_auth_ok" ELSE "w_readonly"]
  /\ UNCHANGED <<pureVars, supVars, obs, srv, rd, broken, now, conns, flow, ctxDone, writeMu, hin, hmsgs, hinput, hrm,
                 authed, pLoc, bLoc, cpc, sockOk, recv, closeCode, cbVars,
                 ptyVars>>

\* a direct write of the handler returns
HandlerWriteEnd(c) ==
  /\ hpc[c] \in {"w_auth_ok", "w_readonly", "w_blocked", "w_pong"}
  /\ EndWrite(H(c), c, GreetFrame(hpc[c]))
  /\ hpc' = [hpc EXCEPT ![c] = IF hpc[c] = "w_auth_ok" THEN "greet_prefs" ELSE "loop"]
  /\ UNCHANGED <<pureVars, supVars, obs, srv, rd, broken, now, conns, flow, ctxDone, writeMu, hin, hmsgs, hinput, hrm,
                 authed, pLoc, bLoc, cpc, sockOk, closeCode, cbVars, ptyVars>>

\* HandleWS sends prefs, the ack quantum hint, after auth_ok and before the
\* readonly notice; the frame is written under the write mutex
HandlerPrefs(c) ==
  /\ hpc[c] = "greet_prefs"
  /\ writeMu = NoOne
  /\ recv' = [recv EXCEPT ![c] = Deliver(c, Prefs(srv.ackQuantum))]
  /\ hpc' = [hpc EXCEPT ![c] = IF srv.readonly THEN "greet_ro" ELSE "loop"]
  /\ UNCHANGED <<pureVars, supVars, obs, srv, rd, broken, now, conns, flow, ctxDone, writeMu, hin, hmsgs,
                 hinput, hrm, authed, pLoc, bLoc, cpc, sockOk, writing, torn,
                 closeCode, cbVars, ptyVars>>

\* the top of the read loop: the select on s.ctx.Done()
LoopCtx(c) ==
  /\ hpc[c] = "loop"
  /\ hpc' = [hpc EXCEPT ![c] = IF ctxDone THEN "rm" ELSE "read"]
  /\ UNCHANGED <<pureVars, supVars, obs, srv, rd, broken, now, conns, flow, ctxDone, writeMu, hin, hmsgs, hinput, hrm,
                 authed, pLoc, bLoc, cpc, sockOk, wireVars, closeCode,
                 cbVars, ptyVars>>

\* conn.ReadMessage fails (peer gone, socket closed, read deadline): return
LoopReadError(c) ==
  /\ hpc[c] = "read"
  /\ hpc' = [hpc EXCEPT ![c] = "rm"]
  /\ UNCHANGED <<pureVars, supVars, obs, srv, rd, broken, now, conns, flow, ctxDone, writeMu, hin, hmsgs, hinput, hrm,
                 authed, pLoc, bLoc, cpc, sockOk, wireVars, closeCode,
                 cbVars, ptyVars>>

\* conn.ReadMessage fails because the connection has been closed
ReadClosedError(c) == ~sockOk[c] /\ LoopReadError(c)

\* conn.ReadMessage returns a frame; non-text and malformed frames are
\* skipped, the others go to handleClientMessage
LoopReadUpTo(c, M, max) ==
  /\ hpc[c] = "read"
  /\ hmsgs[c] < max
  /\ WriteOk(c)
  /\ now < rd[c].deadline
  /\ rd' = [rd EXCEPT ![c].last = now]
  /\ hmsgs' = [hmsgs EXCEPT ![c] = @ + 1]
  /\ \E m \in M :
       LET act == IF m.kind = "text" THEN handleClientMessage(srv, m) ELSE "ignore"
           ev == onAckEvent(flow, m.bytes)
       IN /\ hpc' = [hpc EXCEPT ![c] =
                       CASE act = "blocked" -> "w_blocked"
                         [] act = "pong" -> "w_pong"
                         [] act = "ack" /\ ev = flowEventResume -> "bt_snap"
                         [] OTHER -> "loop"]
          /\ IF act \in {"blocked", "pong"}
               THEN BeginWrite(H(c), c)
               ELSE UNCHANGED <<writing, torn>>
          /\ hinput' = [hinput EXCEPT ![c] =
                          IF act \in {"write", "blocked"} THEN @ + 1 ELSE @]
          /\ ptyIn' = IF act = "write" /\ m.data # ""
                        THEN ptyIn \cup {[conn |-> c, authed |-> authed[c],
                                          readonly |-> srv.readonly, data |-> m.data]}
                        ELSE ptyIn
          /\ ptySize' = IF act = "resize" THEN Resize(ptySize, m.cols, m.rows)
                        ELSE ptySize
          /\ flow' = IF act = "ack" THEN onAck(flow, m.bytes) ELSE flow
          /\ bframe' = IF act = "ack" /\ ev = flowEventResume
                         THEN [bframe EXCEPT ![H(c)] = Txt("flow_resume", "Output resumed")]
                         ELSE bframe
  /\ UNCHANGED <<pureVars, supVars, obs, srv, broken, now, conns, ctxDone, writeMu, hin, hrm, authed, pLoc,
                 bsnap, bcur, cpc, sockOk, recv, closeCode, cbVars>>

\* conn.ReadMessage meets a pong: the pong handler moves the read deadline
PongFrame(c) ==
  /\ hpc[c] = "read"
  /\ WriteOk(c)
  /\ now < rd[c].deadline
  /\ rd' = [rd EXCEPT ![c].deadline = now + srv.clientReadTimeout, ![c].last = now]
  /\ UNCHANGED <<pureVars, supVars, obs, srv, broken, now, conns, flow, ctxDone, writeMu, hLoc, pLoc,
                 bLoc, cpc, sockOk, wireVars, closeCode, cbVars, ptyVars>>

\* conn.ReadMessage fails because the read deadline has passed: return
ReadTimeout(c) ==
  /\ hpc[c] = "read"
  /\ now >= rd[c].deadline
  /\ rd' = [rd EXCEPT ![c].timedOut = TRUE]
  /\ hpc' = [hpc EXCEPT ![c] = "rm"]
  /\ UNCHANGED <<pureVars, supVars, obs, srv, broken, now, conns, flow, ctxDone, writeMu, hin, hmsgs, hinput, hrm,
                 authed, pLoc, bLoc, cpc, sockOk, wireVars, closeCode,
                 cbVars, ptyVars>>

\* each client sends up to MaxMsgs frames out of M
LoopReadWith(c, M) == LoopReadUpTo(c, M, MaxMsgs)

\* the client sends any frame
LoopRead(c) == LoopReadWith(c, ClientMsgs)

\* the client acknowledges output
LoopReadFlow(c) == LoopReadWith(c, FlowMsgs)

\* removeConn, first half: delete and callback under connMu
RemoveConn(c) ==
  /\ hpc[c] = "rm"
  /\ conns' = conns \ {c}
  /\ hrm' = [hrm EXCEPT ![c] = connCount(conns, c)]
  /\ Callback(H(c), connCount(conns, c))
  /\ hpc' = [hpc EXCEPT ![c] = "rm_close"]
  /\ UNCHANGED <<pureVars, supLoc, obs, srv, rd, broken, now, flow, ctxDone, writeMu, hin, hmsgs, hinput, authed, pLoc,
                 bLoc, cpc, sockOk, wireVars, closeCode, ptyVars>>

\* removeConn: conn.Close()
RemoveConnClose(c) ==
  /\ hpc[c] = "rm_close"
  /\ sockOk' = [sockOk EXCEPT ![c] = FALSE]
  /\ hpc' = [hpc EXCEPT ![c] = "rm_reset"]
  /\ UNCHANGED <<pureVars, supVars, obs, srv, rd, broken, now, conns, flow, ctxDone, writeMu, hin, hmsgs, hinput, hrm,
                 authed, pLoc, bLoc, cpc, wireVars, closeCode, cbVars,
                 ptyVars>>

\* removeConn, last step: resetFlow when the count it saw was zero
RemoveConnReset(c) ==
  /\ hpc[c] = "rm_reset"
  /\ flow' = IF hrm[c] = 0 THEN reset(flow) ELSE flow
  /\ hpc' = [hpc EXCEPT ![c] = "done"]
  /\ UNCHANGED <<pureVars, supVars, obs, srv, rd, broken, now, conns, ctxDone, writeMu, hin, hmsgs, hinput, hrm, authed,
                 pLoc, bLoc, cpc, sockOk, wireVars, closeCode, cbVars,
                 ptyVars>>

\* ------------------------------------------------------------- broadcasts
\* the snapshot of s.conns taken under connMu by broadcastBinary/broadcastText
Snapshot(g) == bsnap' = [bsnap EXCEPT ![g] = conns]

remainingNoneAfterError(snap, c, ok) == IF ok THEN snap \ {c} ELSE {}

\* the connections of the snapshot the loop still has to write after the
\* write to c returned, with or without error
remaining(snap, c, ok) == snap \ {c}

Rest(g) == remaining(bsnap[g], bcur[g], WriteOk(bcur[g]))

\* the broadcaster, holding writeMu (taken before its first write), enters
\* the write to one of the snapshot's connections; Go's map order is arbitrary
BroadcastWriteBegin(g, c) ==
  /\ c \in bsnap[g]
  /\ bcur[g] = 0
  /\ writeMu \in {NoOne, g}
  /\ writeMu' = g
  /\ bcur' = [bcur EXCEPT ![g] = c]
  /\ BeginWrite(g, c)

\* that write returns; on an error the broadcaster closes the connection.
\* writeMu is released after the last connection of the snapshot.
BroadcastWriteEnd(g) ==
  /\ bcur[g] # 0
  /\ EndWrite(g, bcur[g], bframe[g])
  /\ sockOk' = [sockOk EXCEPT ![bcur[g]] = WriteOk(bcur[g])]
  /\ bsnap' = [bsnap EXCEPT ![g] = Rest(g)]
  /\ bcur' = [bcur EXCEPT ![g] = 0]
  /\ writeMu' = IF Rest(g) = {} THEN NoOne ELSE g

\* broadcastText of flow_resume by the handler that received the ack
HandlerSnapshot(c) ==
  /\ hpc[c] = "bt_snap"
  /\ Snapshot(H(c))
  /\ hpc' = [hpc EXCEPT ![c] = IF conns = {} THEN "loop" ELSE "bt_write"]
  /\ UNCHANGED <<pureVars, supVars, obs, srv, rd, broken, now, conns, flow, ctxDone, writeMu, hin, hmsgs, hinput, hrm,
                 authed, pLoc, bcur, bframe, cpc, sockOk, wireVars, closeCode,
                 cbVars, ptyVars>>

HandlerBroadcastBegin(c) ==
  /\ hpc[c] = "bt_write"
  /\ \E d \in Conns : BroadcastWriteBegin(H(c), d)
  /\ UNCHANGED <<pureVars, supVars, obs, srv, rd, broken, now, conns, flow, ctxDone, hLoc, pLoc, bsnap,
                 bframe, cpc, sockOk, recv, closeCode, cbVars, ptyVars>>

HandlerBroadcastEnd(c) ==
  /\ hpc[c] = "bt_write"
  /\ BroadcastWriteEnd(H(c))
  /\ hpc' = [hpc EXCEPT ![c] = IF Rest(H(c)) = {} THEN "loop" ELSE @]
  /\ UNCHANGED <<pureVars, supVars, obs, srv, rd, broken, now, conns, flow, ctxDone, hin, hmsgs, hinput, hrm, authed,
                 pLoc, bframe, cpc, closeCode, cbVars, ptyVars>>

\* -------------------------------------------------------- readTerminalLoop
ChunkSizes == {1, 3}

SessionEnded == Txt("info", "Session ended")
FlowPause == Txt("flow_pause", "Network is slow; pausing output to protect session")

AfterBinaryLoops ==
  /\ ppc' = "ctx"
  /\ bframe' = [bframe EXCEPT ![Pump] = NoFrame]

\* where readTerminalLoop goes once broadcastBinary has returned: the
\* session-ended broadcast after a read error, else the top of the loop
AfterBinary ==
  /\ ppc' = IF pcur.err THEN "bt_snap" ELSE "ctx"
  /\ bframe' = [bframe EXCEPT ![Pump] = IF pcur.err THEN SessionEnded ELSE NoFrame]

\* where the pump goes once a broadcastText has returned
AfterText ==
  IF bframe[Pump] = FlowPause THEN AfterBinary
  ELSE /\ ppc' = "done"
       /\ bframe' = [bframe EXCEPT ![Pump] = NoFrame]

\* the select on s.ctx.Done() at the top of the loop
PumpCtx ==
  /\ ppc = "ctx"
  /\ ppc' = IF ctxDone THEN "done" ELSE "wait"
  /\ UNCHANGED <<pureVars, supVars, obs, srv, rd, broken, now, conns, flow, ctxDone, writeMu, hLoc,
                 chunksRead, pcur, psent, bLoc, cpc, sockOk, wireVars, closeCode,
                 cbVars, ptyVars>>

\* waitForFlowResume: returns true when not paused, false on cancellation,
\* sleeps otherwise
PumpWait ==
  /\ ppc = "wait"
  /\ ~flow.paused \/ ctxDone
  /\ ppc' = IF ~flow.paused THEN "read" ELSE "done"
  /\ UNCHANGED <<pureVars, supVars, obs, srv, rd, broken, now, conns, flow, ctxDone, writeMu, hLoc,
                 chunksRead, pcur, psent, bLoc, cpc, sockOk, wireVars, closeCode,
                 cbVars, ptyVars>>

\* terminal.Read returns n bytes and possibly an error
PumpRead ==
  /\ ppc = "read"
  /\ \E n \in ChunkSizes \cup {0}, err \in BOOLEAN :
       /\ n > 0 \/ err
       /\ n > 0 => chunksRead < MaxChunks
       /\ chunksRead' = IF n > 0 THEN chunksRead + 1 ELSE chunksRead
       /\ pcur' = [id |-> IF n > 0 THEN chunksRead + 1 ELSE 0, n |-> n, err |-> err]
       /\ ppc' = IF n > 0 THEN "bb_snap" ELSE "bt_snap"
       /\ bframe' = [bframe EXCEPT ![Pump] =
                       IF n > 0 THEN Bin(chunksRead + 1) ELSE SessionEnded]
  /\ UNCHANGED <<pureVars, supVars, obs, srv, rd, broken, now, conns, flow, ctxDone, writeMu, hLoc, psent,
                 bsnap, bcur, cpc, sockOk, wireVars, closeCode, cbVars, ptyVars>>

\* broadcastBinary / broadcastText: the snapshot; broadcastBinary returns at
\* once when it is empty
PumpSnapshot ==
  /\ ppc \in {"bb_snap", "bt_snap"}
  /\ Snapshot(Pump)
  /\ psent' = 0
  /\ IF conns # {}
       THEN /\ ppc' = IF ppc = "bb_snap" THEN "bb_write" ELSE "bt_write"
            /\ UNCHANGED bframe
       ELSE IF ppc = "bb_snap" THEN AfterBinary ELSE AfterText
  /\ UNCHANGED <<pureVars, supVars, obs, srv, rd, broken, now, conns, flow, ctxDone, writeMu, hLoc,
                 chunksRead, pcur, bcur, cpc, sockOk, wireVars, closeCode, cbVars,
                 ptyVars>>

sentBytesSummed(sent, n, ok) == IF ok THEN sent + n ELSE sent

\* sentBytes of broadcastBinary after one more write of n bytes returned
sentBytes(sent, n, ok) == IF ok /\ n > sent THEN n ELSE sent

PumpWriteBegin ==
  /\ ppc \in {"bb_write", "bt_write"}
  /\ \E c \in Conns : BroadcastWriteBegin(Pump, c)
  /\ UNCHANGED <<pureVars, supVars, obs, srv, rd, broken, now, conns, flow, ctxDone, hLoc, pLoc, bsnap,
                 bframe, cpc, sockOk, recv, closeCode, cbVars, ptyVars>>

\* a binary write that succeeded raises sentBytes to len(data)
PumpWriteEnd ==
  /\ ppc \in {"bb_write", "bt_write"}
  /\ BroadcastWriteEnd(Pump)
  /\ psent' = IF ppc = "bb_write" THEN sentBytes(psent, pcur.n, WriteOk(bcur[Pump]))
                ELSE psent
  /\ IF Rest(Pump) # {}
       THEN UNCHANGED <<ppc, bframe>>
       ELSE IF ppc = "bb_write"
              THEN ppc' = "bb_sent" /\ UNCHANGED bframe
              ELSE AfterText
  /\ UNCHANGED <<pureVars, supVars, obs, srv, rd, broken, now, conns, flow, ctxDone, hLoc, chunksRead, pcur,
                 cpc, closeCode, cbVars, ptyVars>>

\* broadcastBinary after the writes: onBytesSent, and flow_pause on Pause
PumpSent ==
  /\ ppc = "bb_sent"
  /\ flow' = IF psent > 0 THEN onSent(flow, psent) ELSE flow
  /\ IF psent > 0 /\ onSentEvent(flow, psent) = flowEventPause
       THEN /\ ppc' = "bt_snap"
            /\ bframe' = [bframe EXCEPT ![Pump] = FlowPause]
       ELSE AfterBinary
  /\ UNCHANGED <<pureVars, supVars, obs, srv, rd, broken, now, conns, ctxDone, writeMu, hLoc, chunksRead,
                 pcur, psent, bsnap, bcur, cpc, sockOk, wireVars, closeCode, cbVars,
                 ptyVars>>

\* --------------------------------------------------------------------- Close
\* s.cancel()
CloseCancel ==
  /\ cpc = "idle"
  /\ ctxDone' = TRUE
  /\ cpc' = "conns"
  /\ UNCHANGED <<pureVars, supVars, obs, srv, rd, broken, now, conns, flow, writeMu, hLoc, pLoc, bLoc,
                 sockOk, wireVars, closeCode, cbVars, ptyVars>>

\* under connMu: a normal-closure frame to, and Close of, every connection;
\* the map is emptied and count 0 reported
CloseConns ==
  /\ cpc = "conns"
  /\ closeCode' = [c \in Conns |->
                     IF c \in conns /\ sockOk[c] /\ closeCode[c] = 0
                       THEN CloseNormalClosure ELSE closeCode[c]]
  /\ sockOk' = [c \in Conns |-> sockOk[c] /\ c \notin conns]
  /\ conns' = {}
  /\ Callback(Closer, 0)
  /\ cpc' = "reset"
  /\ UNCHANGED <<pureVars, supLoc, obs, srv, rd, broken, now, flow, ctxDone, writeMu, hLoc, pLoc, bLoc,
                 wireVars, ptyVars>>

\* s.resetFlow()
CloseReset ==
  /\ cpc = "reset"
  /\ flow' = reset(flow)
  /\ cpc' = "done"
  /\ UNCHANGED <<pureVars, supVars, obs, srv, rd, broken, now, conns, ctxDone, writeMu, hLoc, pLoc, bLoc,
                 sockOk, wireVars, closeCode, cbVars, ptyVars>>

\* ------------------------------------------------------------- environment
\* the network path of an open connection goes away
SockBreak(c) ==
  /\ hpc[c] \notin {"new", "forbidden", "done"}
  /\ WriteOk(c)
  /\ broken' = [broken EXCEPT ![c] = TRUE]
  /\ UNCHANGED <<pureVars, supVars, obs, srv, rd, now, conns, flow, ctxDone, writeMu, hLoc,
                 pLoc, bLoc, cpc, sockOk, wireVars, closeCode, cbVars, ptyVars>>

\* the clock advances
Tick ==
  /\ now <= MaxTime
  /\ now' = now + 1
  /\ UNCHANGED <<pureVars, supVars, obs, srv, rd, broken, conns, flow, ctxDone, writeMu, hLoc, pLoc, bLoc,
                 cpc, sockOk, wireVars, closeCode, cbVars, ptyVars>>

\* the output path: clients that authenticate by token and acknowledge
\* output, and the pump that broadcasts what it reads from the pty
Next ==
  \/ \E c \in Conns : Upgrade(c)
  \/ \E c \in Conns : ClientAuthToken(c)
  \/ \E c \in Conns : Authenticate(c)
  \/ \E c \in Conns : AddConn(c)
  \/ \E c \in Conns : HandlerWriteBegin(c)
  \/ \E c \in Conns : HandlerWriteEnd(c)
  \/ \E c \in Conns : HandlerPrefs(c)
  \/ \E c \in Conns : LoopCtx(c)
  \/ \E c \in Conns : LoopReadError(c)
  \/ \E c \in Conns : LoopReadFlow(c)
  \/ \E c \in Conns : HandlerSnapshot(c)
  \/ \E c \in Conns : HandlerBroadcastBegin(c)
  \/ \E c \in Conns : HandlerBroadcastEnd(c)
  \/ \E c \in Conns : RemoveConn(c)
  \/ \E c \in Conns : RemoveConnClose(c)
  \/ \E c \in Conns : RemoveConnReset(c)
  \/ PumpCtx \/ PumpWait \/ PumpRead \/ PumpSnapshot
  \/ PumpWriteBegin \/ PumpWriteEnd \/ PumpSent

Spec == Init /\ [][Next]_vars

\* admission and removal: clients that authenticate by token and send any
\* frame, and Close, on a bridge whose pty is silent (nothing is broadcast)
NextAdmit ==
  \/ \E c \in Conns : Upgrade(c)
  \/ \E c \in Conns : ClientAuthToken(c)
  \/ \E c \in Conns : Authenticate(c)
  \/ \E c \in Conns : AddConn(c)
  \/ \E c \in Conns : HandlerWriteBegin(c)
  \/ \E c \in Conns : HandlerWriteEnd(c)
  \/ \E c \in Conns : HandlerPrefs(c)
  \/ \E c \in Conns : LoopCtx(c)
  \/ \E c \in Conns : LoopReadError(c)
  \/ \E c \in Conns : LoopRead(c)
  \/ \E c \in Conns : RemoveConn(c)
  \/ \E c \in Conns : RemoveConnClose(c)
  \/ \E c \in Conns : RemoveConnReset(c)
  \/ CloseCancel \/ CloseConns \/ CloseReset

SpecAdmit == InitAdmit /\ [][NextAdmit]_vars

\* the handshake: any frames, on bridges with and without a token expiry and
\* an access code, while the clock advances
NextAuth ==
  \/ \E c \in Conns : Upgrade(c)
  \/ \E c \in Conns : ClientAuth(c)
  \/ \E c \in Conns : Authenticate(c)
  \/ \E c \in Conns : AddConn(c)
  \/ \E c \in Conns : HandlerWriteBegin(c)
  \/ \E c \in Conns : HandlerWriteEnd(c)
  \/ \E c \in Conns : HandlerPrefs(c)
  \/ Tick

SpecAuth == InitAuth /\ [][NextAuth]_vars

\* -------------------------------------------- the flow controller on its own
MaxCalls == 5

FlowWatermarks == {<<1, 2>>, <<2, 2>>, <<3, 2>>, <<0, 0>>}
FlowArgs == {-1, 0, 1, 2, 3, 5}

\* a bridge that nothing drives
BridgeIdle ==
  BridgeInit([ReadOnly : {FALSE}, MaxClients : {1}, TokenExpiresAt : {0},
              AccessCode : {""}, LowWatermarkBytes : {1},
              HighWatermarkBytes : {2}, AckQuantumBytes : {4}, ClientReadTimeout : {0}], {})

InitFlow ==
  /\ \E w \in FlowWatermarks : fc = newFlowController(w[1], w[2])
  /\ fcEv = flowEventNone
  /\ fcOp = [op |-> "new", arg |-> 0, k |-> 0]
  /\ OriginIdle
  /\ ObjIdle
  /\ BridgeIdle

FlowOnSent ==
  /\ fcOp.k < MaxCalls
  /\ \E n \in FlowArgs :
       /\ fc' = onSent(fc, n)
       /\ fcEv' = onSentEvent(fc, n)
       /\ fcOp' = [op |-> "onSent", arg |-> n, k |-> fcOp.k + 1]
  /\ UNCHANGED <<oq, objVars, bridgeVars, supVars>>

FlowOnAck ==
  /\ fcOp.k < MaxCalls
  /\ \E n \in FlowArgs :
       /\ fc' = onAck(fc, n)
       /\ fcEv' = onAckEvent(fc, n)
       /\ fcOp' = [op |-> "onAck", arg |-> n, k |-> fcOp.k + 1]
  /\ UNCHANGED <<oq, objVars, bridgeVars, supVars>>

FlowReset ==
  /\ fcOp.k < MaxCalls
  /\ fc' = reset(fc)
  /\ fcEv' = flowEventNone
  /\ fcOp' = [op |-> "reset", arg |-> 0, k |-> fcOp.k + 1]
  /\ UNCHANGED <<oq, objVars, bridgeVars, supVars>>

NextFlow == FlowOnSent \/ FlowOnAck \/ FlowReset

SpecFlow == InitFlow /\ [][NextFlow]_vars

\* the construction of a flow controller from any pair of watermarks
NewArgs == {-1, 0, 1, 2, 3, 5, DefaultLow, DefaultHigh, DefaultHigh + 1,
            2 * DefaultHigh}

InitNew ==
  /\ \E low \in NewArgs, high \in NewArgs :
       fcOp = [op |-> "args", arg |-> <<low, high>>, k |-> 0]
  /\ fc = [low |-> 0, high |-> 0, pending |-> 0, paused |-> FALSE]
  /\ fcEv = flowEventNone
  /\ OriginIdle
  /\ ObjIdle
  /\ BridgeIdle

FlowNew ==
  /\ fcOp.op = "args"
  /\ fc' = newFlowController(fcOp.arg[1], fcOp.arg[2])
  /\ fcOp' = [fcOp EXCEPT !.op = "new", !.k = 1]
  /\ UNCHANGED <<fcEv, oq, objVars, bridgeVars, supVars>>

NextNew == FlowNew

SpecNew == InitNew /\ [][NextNew]_vars

\* ------------------------------------------------ the origin check on its own
InitOrigin ==
  /\ \E o \in OriginHeaders, h \in HostHeaders :
       oq = [origin |-> o, host |-> h, done |-> FALSE, ok |-> FALSE]
  /\ FlowIdle
  /\ ObjIdle
  /\ BridgeIdle

\* the upgrader calls CheckOrigin with the request's Origin and Host
OriginCheck ==
  /\ ~oq.done
  /\ oq' = [oq EXCEPT !.done = TRUE, !.ok = CheckOrigin(oq.origin, oq.host)]
  /\ UNCHANGED <<flowVars, objVars, bridgeVars, supVars>>

NextOrigin == OriginCheck

SpecOrigin == InitOrigin /\ [][NextOrigin]_vars

\* ------------------------------------------------------------ the supervisor
\* runServer from the launch of its goroutines on; the bridge it drives is
\* the one above, its pty silent.
MaxEvents == 3        \* capacity of eventCh

Event(source, err) == [source |-> source, err |-> err]

\* the launch options whose start-up and shutdown are explored: no idle
\* timeout, a keep-awake helper, with and without a tunnel
LaunchOptions ==
  [idleTimeout : {0}, enableTunnel : BOOLEAN, tunnelRequired : BOOLEAN,
   enableCaffeinate : {TRUE}]

\* the launch options whose idle timeout is explored: no children
IdleOptions ==
  [idleTimeout : {0, 1}, enableTunnel : {FALSE}, tunnelRequired : {FALSE},
   enableCaffeinate : {FALSE}]

\* the bridge runServer constructs
LaunchBridgeOptions ==
  [ReadOnly : {FALSE}, MaxClients : {1}, TokenExpiresAt : {0},
   AccessCode : {""}, LowWatermarkBytes : {1}, HighWatermarkBytes : {2},
   AckQuantumBytes : {4}, ClientReadTimeout : {90}]

\* the connections that dial a supervised bridge
Dialers == {1}

InitSup == PureIdle /\ BridgeInitWith(LaunchBridgeOptions, {}, LaunchOptions)

InitIdle == PureIdle /\ BridgeInitWith(LaunchBridgeOptions, {}, IdleOptions)

\* the idle ticker's test on what it read and the time it reads afterwards
idleDueBeforeDeadline(clientCount, idleDeadline, t) ==
  ~(clientCount > 0 \/ idleDeadline = 0) /\ t < idleDeadline

idleDue(clientCount, idleDeadline, t) ==
  ~(clientCount > 0 \/ idleDeadline = 0) /\ ~(t < idleDeadline)

\* a request reaches the listener and is upgraded
Dial(c) ==
  /\ lpc = "serving"
  /\ Upgrade(c)

\* srv.ListenAndServe fails: the server event
ListenFail ==
  /\ lpc = "serving"
  /\ Len(eventCh) < MaxEvents
  /\ lpc' = "failed"
  /\ eventCh' = Append(eventCh, Event("server", TRUE))
  /\ UNCHANGED <<pureVars, bridgeVars, state, disk, opt, mainVars, sigCh, wpc, tickVars>>

\* term.Wait returns: the terminal event, with or without an error
TerminalExit ==
  /\ wpc = "waiting"
  /\ Len(eventCh) < MaxEvents
  /\ wpc' = "sent"
  /\ \E err \in BOOLEAN : eventCh' = Append(eventCh, Event("terminal", err))
  /\ UNCHANGED <<pureVars, bridgeVars, state, disk, opt, mainVars, sigCh, lpc, tickVars>>

\* SIGINT or SIGTERM arrives while runServer listens for it
Signal ==
  /\ mpc = "select"
  /\ ~sigCh
  /\ sigCh' = TRUE
  /\ UNCHANGED <<pureVars, bridgeVars, state, disk, opt, mainVars, eventCh, lpc, wpc, tickVars>>

\* the ticker fires: clientCount and idleDeadline are read under stateMu
TickerRead ==
  /\ tpc = "wait"
  /\ ~runCtxDone
  /\ tread' = [clientCount |-> state.ClientCount, idleDeadline |-> state.IdleDeadline]
  /\ tpc' = "check"
  /\ UNCHANGED <<pureVars, bridgeVars, state, disk, opt, mainVars, chanVars>>

\* the test, after stateMu is released, against the time read then; the
\* idle event is sent without blocking and the ticker returns
TickerCheck ==
  /\ tpc = "check"
  /\ IF idleDue(tread.clientCount, tread.idleDeadline, now)
       THEN /\ tpc' = "done"
            /\ eventCh' = IF Len(eventCh) < MaxEvents
                            THEN Append(eventCh, Event("idle", FALSE))
                            ELSE eventCh
       ELSE /\ tpc' = "wait"
            /\ UNCHANGED eventCh
  /\ tread' = [clientCount |-> 0, idleDeadline |-> 0]
  /\ UNCHANGED <<pureVars, bridgeVars, state, disk, opt, mainVars, sigCh, lpc, wpc>>

\* the ticker sees runCtx cancelled
TickerStop ==
  /\ tpc = "wait"
  /\ runCtxDone
  /\ tpc' = "done"
  /\ UNCHANGED <<pureVars, bridgeVars, state, disk, opt, mainVars, chanVars, tread>>

\* the tunnel: not enabled, started (the record is rewritten), or failed,
\* which ends runServer with 1 when the tunnel is required
tunnelFailureAlwaysFatal(o) == TRUE

\* a failed health wait or tunnel start ends the launch
tunnelFailureFatal(o) == o.tunnelRequired

\* the tunnel: not enabled; the local health wait fails; cloudflare.Start
\* fails; or the tunnel runs and the share URL moves to its public base.
\* /healthz answers only while the listener serves.
StartTunnel ==
  /\ mpc = "tunnel"
  /\ \E outcome \in {"health_failed", "start_failed", "started"} :
       /\ outcome # "health_failed" => lpc = "serving"
       /\ IF ~opt.enableTunnel
            THEN /\ mpc' = "caffeinate"
                 /\ UNCHANGED <<exitCode, managed, disk, state, shareURL>>
            ELSE IF outcome = "started"
              THEN /\ mpc' = "caffeinate"
                   /\ managed' = Append(managed, "tunnel")
                   /\ shareURL' = "public"
                   /\ state' = [state EXCEPT !.URL = "public", !.PublicURL = "public"]
                   /\ disk' = TRUE
                   /\ UNCHANGED exitCode
              ELSE /\ mpc' = IF tunnelFailureFatal(opt) THEN "d_managed" ELSE "caffeinate"
                   /\ exitCode' = IF tunnelFailureFatal(opt) THEN 1 ELSE exitCode
                   /\ UNCHANGED <<managed, disk, state, shareURL>>
  /\ UNCHANGED <<pureVars, bridgeVars, opt, cause, stopped, runCtxDone,
                 ptyOpen, chanVars, tickVars>>

\* the keep-awake helper: not enabled, started, or failed (a warning)
StartCaffeinate ==
  /\ mpc = "caffeinate"
  /\ mpc' = "select"
  /\ \E ok \in BOOLEAN :
       IF opt.enableCaffeinate /\ ok
         THEN managed' = Append(managed, "caffeinate") /\ disk' = TRUE
         ELSE UNCHANGED <<managed, disk>>
  /\ UNCHANGED <<pureVars, bridgeVars, state, opt, exitCode, cause, stopped,
                 runCtxDone, ptyOpen, shareURL, chanVars, tickVars>>

exitCodeIgnoringServer(ev) == IF ev.source = "terminal" /\ ev.err THEN 1 ELSE 0

\* the switch on the event taken from eventCh: the exit code it sets
exitCodeOf(ev) ==
  IF ev.source = "terminal"
    THEN (IF ev.err THEN 1 ELSE 0)
    ELSE IF ev.source = "idle" THEN 0
    ELSE IF ev.err THEN 1 ELSE 0

\* the select on sigCh and eventCh
Select ==
  /\ mpc = "select"
  /\ mpc' = "shutdown"
  /\ \/ /\ sigCh
        /\ sigCh' = FALSE
        /\ cause' = "signal"
        /\ UNCHANGED <<exitCode, eventCh>>
     \/ /\ eventCh # <<>>
        /\ eventCh' = Tail(eventCh)
        /\ cause' = Head(eventCh).source
        /\ exitCode' = exitCodeOf(Head(eventCh))
        /\ UNCHANGED sigCh
  /\ UNCHANGED <<pureVars, bridgeVars, state, disk, opt, managed, stopped,
                 runCtxDone, ptyOpen, shareURL, lpc, wpc, tickVars>>

\* srv.Shutdown: the listener is closed
Shutdown ==
  /\ mpc = "shutdown"
  /\ mpc' = "d_managed"
  /\ lpc' = "closed"
  /\ UNCHANGED <<pureVars, bridgeVars, state, disk, opt, exitCode, cause, managed,
                 stopped, runCtxDone, ptyOpen, shareURL, eventCh, sigCh, wpc, tickVars>>

\* deferred: the managed children are stopped, the last started first
StopManaged ==
  /\ mpc = "d_managed"
  /\ IF managed # <<>>
       THEN /\ stopped' = Append(stopped, managed[Len(managed)])
            /\ managed' = SubSeq(managed, 1, Len(managed) - 1)
            /\ UNCHANGED mpc
       ELSE /\ mpc' = "d_bridge"
            /\ UNCHANGED <<managed, stopped>>
  /\ UNCHANGED <<pureVars, bridgeVars, state, disk, opt, exitCode, cause,
                 runCtxDone, ptyOpen, shareURL, chanVars, tickVars>>

\* deferred: bridge.Close() is called
DeferClose ==
  /\ mpc = "d_bridge"
  /\ CloseCancel

\* bridge.Close() has returned
CloseReturns ==
  /\ mpc = "d_bridge"
  /\ cpc = "done"
  /\ mpc' = "d_remove"
  /\ UNCHANGED <<pureVars, bridgeVars, state, disk, opt, exitCode, cause, managed,
                 stopped, runCtxDone, ptyOpen, shareURL, chanVars, tickVars>>

\* deferred: runtimeState.RemoveSession(id)
RemoveSession ==
  /\ mpc = "d_remove"
  /\ mpc' = "d_cancel"
  /\ disk' = FALSE
  /\ UNCHANGED <<pureVars, bridgeVars, state, opt, exitCode, cause, managed,
                 stopped, runCtxDone, ptyOpen, shareURL, chanVars, tickVars>>

\* deferred: runCancel(); runServer returns
RunCancel ==
  /\ mpc = "d_cancel"
  /\ mpc' = "returned"
  /\ runCtxDone' = TRUE
  /\ UNCHANGED <<pureVars, bridgeVars, state, disk, opt, exitCode, cause, managed,
                 stopped, ptyOpen, shareURL, chanVars, tickVars>>

\* the caller's deferred term.Close()
TermClose ==
  /\ mpc = "returned"
  /\ mpc' = "exited"
  /\ ptyOpen' = FALSE
  /\ UNCHANGED <<pureVars, bridgeVars, state, disk, opt, exitCode, cause, managed,
                 stopped, runCtxDone, shareURL, chanVars, tickVars>>

\* the bridge of a supervised session: one client that connects and leaves
Served ==
  \/ \E c \in Dialers : Dial(c)
  \/ \E c \in Conns : ClientAuthToken(c)
  \/ \E c \in Conns : Authenticate(c)
  \/ \E c \in Conns : AddConn(c)
  \/ \E c \in Conns : HandlerWriteBegin(c)
  \/ \E c \in Conns : HandlerWriteEnd(c)
  \/ \E c \in Conns : HandlerPrefs(c)
  \/ \E c \in Conns : LoopCtx(c)
  \/ \E c \in Conns : LoopReadError(c)
  \/ \E c \in Conns : RemoveConn(c)
  \/ \E c \in Conns : RemoveConnClose(c)
  \/ \E c \in Conns : RemoveConnReset(c)
  \/ DeferClose \/ CloseConns \/ CloseReset \/ CloseReturns

\* runServer itself and what ends it
Supervised ==
  \/ ListenFail \/ TerminalExit \/ Signal
  \/ StartTunnel \/ StartCaffeinate \/ Select \/ Shutdown \/ StopManaged
  \/ RemoveSession \/ RunCancel \/ TermClose

\* start-up and shutdown of a session with children and no idle timeout
NextSup == Served \/ Supervised

SpecSup == InitSup /\ [][NextSup]_vars

\* a session with an idle timeout, while the clock advances
NextIdle ==
  \/ Served \/ Supervised
  \/ TickerRead \/ TickerCheck \/ TickerStop
  \/ Tick

\* the steps of the goroutine that runs runServer
MainSteps ==
  \/ StartTunnel \/ StartCaffeinate \/ Select \/ Shutdown \/ StopManaged
  \/ DeferClose \/ CloseConns \/ CloseReset \/ CloseReturns
  \/ RemoveSession \/ RunCancel

\* the Go scheduler lets the goroutine of runServer and the ticker goroutine
\* run when they can
SpecIdle ==
  /\ InitIdle /\ [][NextIdle]_vars
  /\ WF_vars(MainSteps)
  /\ WF_vars(TickerRead) /\ WF_vars(TickerCheck)

\* ------------------------------------------------- the read deadline
\* the options of the bridges whose read deadline is explored: a deadline
\* that the bounded clock can reach
ReadOptions ==
  [ReadOnly : {FALSE}, MaxClients : {2}, TokenExpiresAt : {0},
   AccessCode : {""}, LowWatermarkBytes : {1}, HighWatermarkBytes : {2},
   AckQuantumBytes : {4}, ClientReadTimeout : {2}]

\* the frames the clients of these bridges send
ReadMsgs ==
  { ClientMsg("binary", "", "", 0, 0, 0),
    ClientMsg("text", "input", "ls", 0, 0, 0) }

InitRead == PureIdle /\ BridgeInit(ReadOptions, {})

LoopReadAny(c) == LoopReadWith(c, ReadMsgs)

NextRead ==
  \/ \E c \in Conns : Upgrade(c)
  \/ \E c \in Conns : ClientAuthToken(c)
  \/ \E c \in Conns : Authenticate(c)
  \/ \E c \in Conns : AddConn(c)
  \/ \E c \in Conns : HandlerWriteBegin(c)
  \/ \E c \in Conns : HandlerWriteEnd(c)
  \/ \E c \in Conns : HandlerPrefs(c)
  \/ \E c \in Conns : LoopCtx(c)
  \/ \E c \in Conns : LoopReadAny(c)
  \/ \E c \in Conns : PongFrame(c)
  \/ \E c \in Conns : ReadTimeout(c)
  \/ \E c \in Conns : RemoveConn(c)
  \/ \E c \in Conns : RemoveConnClose(c)
  \/ \E c \in Conns : RemoveConnReset(c)
  \/ Tick

\* the Go scheduler lets a handler that can return and remove itself run
SpecRead ==
  /\ InitRead /\ [][NextRead]_vars
  /\ \A c \in Conns :
       /\ WF_vars(ReadTimeout(c))
       /\ WF_vars(RemoveConn(c))

\* ------------------------------------------------------ broken sockets
\* the output path with clients that do not acknowledge and whose
\* connections can break
Breakable == {1}     \* the connections whose network path can go away

HandlerSteps(c) ==
  \/ Authenticate(c) \/ AddConn(c)
  \/ HandlerWriteBegin(c) \/ HandlerWriteEnd(c) \/ HandlerPrefs(c)
  \/ LoopCtx(c) \/ ReadClosedError(c)
  \/ RemoveConn(c) \/ RemoveConnClose(c) \/ RemoveConnReset(c)

PumpSteps ==
  \/ PumpCtx \/ PumpWait \/ PumpRead \/ PumpSnapshot
  \/ PumpWriteBegin \/ PumpWriteEnd \/ PumpSent

\* a client dials once the clients before it have been greeted
DialInTurn(c) ==
  /\ \A d \in Conns : d < c => hpc[d] \in {"loop", "read", "rm", "rm_close", "rm_reset", "done"}
  /\ Upgrade(c)

NextBreak ==
  \/ \E c \in Conns : DialInTurn(c)
  \/ \E c \in Conns : ClientAuthToken(c)
  \/ \E c \in Conns : HandlerSteps(c)
  \/ \E c \in Breakable : SockBreak(c)
  \/ PumpSteps

\* the Go scheduler lets the pump and every handler run when they can
SpecBreak ==
  /\ Init /\ [][NextBreak]_vars
  /\ WF_vars(PumpSteps)
  /\ \A c \in Conns : WF_vars(HandlerSteps(c))

\* ------------------------------------------------------ the pty ends
\* the output path seen by clients that record the binary frames and the
\* info frames; the clients send nothing after the handshake and may leave
InitEnd == PureIdle /\ BridgeInit(OutputOptions, {"bin", "info"})

EndHandlerSteps(c) ==
  \/ Authenticate(c) \/ AddConn(c)
  \/ HandlerWriteBegin(c) \/ HandlerWriteEnd(c) \/ HandlerPrefs(c)
  \/ LoopCtx(c)
  \/ RemoveConn(c) \/ RemoveConnClose(c) \/ RemoveConnReset(c)

NextEnd ==
  \/ \E c \in Conns : DialInTurn(c)
  \/ \E c \in Conns : ClientAuthToken(c)
  \/ \E c \in Conns : EndHandlerSteps(c)
  \/ \E c \in Conns : LoopReadError(c)
  \/ PumpSteps

\* the Go scheduler lets the pump and every handler run when they can; a
\* client may stay connected for ever
SpecEnd ==
  /\ InitEnd /\ [][NextEnd]_vars
  /\ WF_vars(PumpSteps)
  /\ \A c \in Conns : WF_vars(EndHandlerSteps(c))

\* the same path seen by clients that stay, and record every frame
InitGreet == PureIdle /\ BridgeInit(OutputOptions, TextTypes \cup {"bin"})

NextGreet ==
  \/ \E c \in Conns : DialInTurn(c)
  \/ \E c \in Conns : ClientAuthToken(c)
  \/ \E c \in Conns : Authenticate(c)
  \/ \E c \in Conns : AddConn(c)
  \/ \E c \in Conns : HandlerWriteBegin(c)
  \/ \E c \in Conns : HandlerWriteEnd(c)
  \/ \E c \in Conns : HandlerPrefs(c)
  \/ \E c \in Conns : LoopCtx(c)
  \/ PumpSteps

SpecGreet == InitGreet /\ [][NextGreet]_vars

\* ------------------------------------------------ acknowledged output
\* the output path with clients that acknowledge any number of bytes, on
\* bridges whose watermarks are one byte
AckOptions ==
  [ReadOnly : {FALSE}, MaxClients : {2}, TokenExpiresAt : {0},
   AccessCode : {""}, LowWatermarkBytes : {1}, HighWatermarkBytes : {1},
   AckQuantumBytes : {4}, ClientReadTimeout : {0}]

\* acks of a negative count, of nothing, of one byte, of more than is pending
AckMsgs == { ClientMsg("text", "ack", "", 0, 0, b) : b \in {-1, 0, 1, 3} }

\* len(buf) of readTerminalLoop: the most bytes one read returns
ReadBufferSize == CHOOSE n \in ChunkSizes : \A m \in ChunkSizes : m <= n

InitAck == PureIdle /\ BridgeInit(AckOptions, {"bin"})

LoopReadAck(c) == LoopReadWith(c, AckMsgs)

NextAck ==
  \/ \E c \in Conns : DialInTurn(c)
  \/ \E c \in Conns : ClientAuthToken(c)
  \/ \E c \in Conns : EndHandlerSteps(c)
  \/ \E c \in Conns : LoopReadError(c)
  \/ \E c \in Conns : LoopReadAck(c)
  \/ \E c \in Conns : HandlerSnapshot(c)
  \/ \E c \in Conns : HandlerBroadcastBegin(c)
  \/ \E c \in Conns : HandlerBroadcastEnd(c)
  \/ PumpSteps

SpecAck == InitAck /\ [][NextAck]_vars

\* the same bridges with clients that stay, and record the flow frames
InitOrder == PureIdle /\ BridgeInit(AckOptions, {"flow_pause", "flow_resume"})

NextOrder ==
  \/ \E c \in Conns : DialInTurn(c)
  \/ \E c \in Conns : ClientAuthToken(c)
  \/ \E c \in Conns : Authenticate(c)
  \/ \E c \in Conns : AddConn(c)
  \/ \E c \in Conns : HandlerWriteBegin(c)
  \/ \E c \in Conns : HandlerWriteEnd(c)
  \/ \E c \in Conns : HandlerPrefs(c)
  \/ \E c \in Conns : LoopCtx(c)
  \/ \E c \in Conns : LoopReadAck(c)
  \/ \E c \in Conns : HandlerSnapshot(c)
  \/ \E c \in Conns : HandlerBroadcastBegin(c)
  \/ \E c \in Conns : HandlerBroadcastEnd(c)
  \/ PumpSteps

SpecOrder == InitOrder /\ [][NextOrder]_vars

\* ------------------------------------------------------- ignored frames
\* bridges, read-write or read-only, with room for every connection, whose
\* clients send two frames each after the handshake
MaxFrames == 2

FrameOptions ==
  [ReadOnly : BOOLEAN, MaxClients : {2}, TokenExpiresAt : {0},
   AccessCode : {""}, LowWatermarkBytes : {1}, HighWatermarkBytes : {2},
   AckQuantumBytes : {4}, ClientReadTimeout : {0}]

\* the frames HandleWS skips (not text, not JSON) and the type the switch
\* of handleClientMessage has no case for
IgnoredMsgs ==
  { ClientMsg("binary", "", "", 0, 0, 0),
    ClientMsg("badjson", "", "", 0, 0, 0),
    ClientMsg("text", "bogus", "ls", 0, 0, 0) }

\* the frames the clients of these bridges send
FrameMsgs ==
  IgnoredMsgs \cup { ClientMsg("text", "input", "ls", 0, 0, 0),
                     ClientMsg("text", "ping", "", 0, 0, 0) }

InitFrames == PureIdle /\ BridgeInit(FrameOptions, TextTypes)

LoopReadFrame(c) == LoopReadUpTo(c, FrameMsgs, MaxFrames)

NextFrames ==
  \/ \E c \in Conns : Upgrade(c)
  \/ \E c \in Conns : ClientAuthToken(c)
  \/ \E c \in Conns : Authenticate(c)
  \/ \E c \in Conns : AddConn(c)
  \/ \E c \in Conns : HandlerWriteBegin(c)
  \/ \E c \in Conns : HandlerWriteEnd(c)
  \/ \E c \in Conns : HandlerPrefs(c)
  \/ \E c \in Conns : LoopCtx(c)
  \/ \E c \in Conns : LoopReadError(c)
  \/ \E c \in Conns : LoopReadFrame(c)
  \/ \E c \in Conns : RemoveConn(c)
  \/ \E c \in Conns : RemoveConnClose(c)
  \/ \E c \in Conns : RemoveConnReset(c)

SpecFrames == InitFrames /\ [][NextFrames]_vars

\* ------------------------------------------- Terminal and tunnel Handle
\* Terminal.Close and Handle.Stop run their body under a sync.Once, whose Do
\* reads done, takes the mutex m, reads done again and stores done after
\* the body has run. A child is running, exited (not yet waited for) or
\* reaped; a Terminal opened on a tty path has no child.
MaxCloseCalls == 2   \* Close / Stop calls each caller makes

\* what a Terminal or Handle is after construction
started(mode) ==
  [mode |-> mode, child |-> IF mode = "tty" THEN "none" ELSE "running",
   fd |-> TRUE, kills |-> 0, calls |-> 0, returns |-> 0, errs |-> 0]

InitProc ==
  /\ FlowIdle /\ OriginIdle /\ RegOff /\ BridgeIdle
  /\ \E m \in {"cmd", "tty"} :
       proc = [o \in Objs |-> IF o = "term" THEN started(m) ELSE started("cmd")]
  /\ once = [o \in Objs |-> [done |-> FALSE, m |-> 0]]
  /\ call = [k \in Callers |-> [pc |-> "idle", obj |-> "term", n |-> 0,
                                 retErr |-> FALSE, after |-> FALSE,
                                 ran |-> FALSE]]
  /\ wait = [pc |-> "idle", closeCalled |-> FALSE, err |-> FALSE]

ProcStep == UNCHANGED <<fc, fcEv, fcOp, oq, regVars, bridgeVars, supVars>>

\* a caller enters Close or Stop: var retErr error
CallClose(k, o) ==
  /\ call[k].pc = "idle"
  /\ call[k].n < MaxCloseCalls
  /\ call' = [call EXCEPT ![k] = [pc |-> "do", obj |-> o, n |-> call[k].n,
                                  retErr |-> FALSE,
                                  after |-> proc[o].returns > 0,
                                  ran |-> FALSE]]
  /\ proc' = [proc EXCEPT ![o].calls = 1]
  /\ UNCHANGED <<once, wait>>
  /\ ProcStep

OnceFastUnguarded(k) ==
  /\ call[k].pc = "do"
  /\ call' = [call EXCEPT ![k].pc = "f"]
  /\ UNCHANGED <<proc, once, wait>>
  /\ ProcStep

\* closeOnce.Do / stopOnce.Do: the first read of done
OnceFast(k) ==
  /\ call[k].pc = "do"
  /\ call' = [call EXCEPT ![k].pc =
                IF once[call[k].obj].done THEN "ret" ELSE "lock"]
  /\ UNCHANGED <<proc, once, wait>>
  /\ ProcStep

\* Do takes the mutex of the Once
OnceLock(k) ==
  /\ call[k].pc = "lock"
  /\ once[call[k].obj].m = 0
  /\ once' = [once EXCEPT ![call[k].obj].m = k]
  /\ call' = [call EXCEPT ![k].pc = "slow"]
  /\ UNCHANGED <<proc, wait>>
  /\ ProcStep

\* Do reads done again under the mutex
OnceSlow(k) ==
  /\ call[k].pc = "slow"
  /\ IF once[call[k].obj].done
       THEN /\ once' = [once EXCEPT ![call[k].obj].m = 0]
            /\ call' = [call EXCEPT ![k].pc = "ret"]
       ELSE /\ call' = [call EXCEPT ![k].pc = "f"]
            /\ UNCHANGED once
  /\ UNCHANGED <<proc, wait>>
  /\ ProcStep

\* the body of Terminal.Close: kill the child if there is one, close the
\* pty file and keep its error
RunClose(k) ==
  /\ call[k].pc = "f"
  /\ call[k].obj = "term"
  /\ \E err \in BOOLEAN :
       call' = [call EXCEPT ![k].pc = "fdone", ![k].retErr = err, ![k].ran = TRUE]
  /\ proc' = [proc EXCEPT
       !["term"].kills = IF proc["term"].mode = "tty" THEN @ ELSE @ + 1,
       !["term"].child = IF @ = "running" THEN "exited" ELSE @,
       !["term"].fd = FALSE]
  /\ UNCHANGED <<once, wait>>
  /\ ProcStep

\* the body of Handle.Stop: kill the child, keep the error of Kill, wait
\* for the child
RunStop(k) ==
  /\ call[k].pc = "f"
  /\ call[k].obj = "tun"
  /\ \E err \in BOOLEAN :
       call' = [call EXCEPT ![k].pc = "fdone", ![k].retErr = err, ![k].ran = TRUE]
  /\ proc' = [proc EXCEPT !["tun"].kills = @ + 1, !["tun"].child = "reaped"]
  /\ UNCHANGED <<once, wait>>
  /\ ProcStep

\* Do stores done and releases the mutex
OnceDone(k) ==
  /\ call[k].pc = "fdone"
  /\ once' = [once EXCEPT ![call[k].obj] =
                [done |-> TRUE, m |-> IF @.m = k THEN 0 ELSE @.m]]
  /\ call' = [call EXCEPT ![k].pc = "ret"]
  /\ UNCHANGED <<proc, wait>>
  /\ ProcStep

\* return retErr
CloseReturn(k) ==
  /\ call[k].pc = "ret"
  /\ call' = [call EXCEPT ![k].pc = "idle", ![k].n = @ + 1]
  /\ proc' = [proc EXCEPT
       ![call[k].obj].returns = 1,
       ![call[k].obj].errs = IF call[k].retErr THEN @ + 1 ELSE @]
  /\ UNCHANGED <<once, wait>>
  /\ ProcStep

\* the child of o exits by itself
ChildExit(o) ==
  /\ proc[o].child = "running"
  /\ proc' = [proc EXCEPT ![o].child = "exited"]
  /\ UNCHANGED <<once, call, wait>>
  /\ ProcStep

\* Terminal.Wait is called
WaitCall ==
  /\ wait.pc = "idle"
  /\ wait' = [wait EXCEPT !.pc = "waiting"]
  /\ UNCHANGED <<proc, once, call>>
  /\ ProcStep

waitReadyNilCmd(t) == t.mode = "tty" \/ t.child = "exited"

\* Terminal.Wait can return: the child has exited, or, for a terminal on a
\* tty path, Close has closed the terminal
waitReady(t) == IF t.mode = "tty" THEN ~t.fd ELSE t.child = "exited"

\* Terminal.Wait returns: cmd.Wait's error for a child, nil on a tty path
WaitReturn ==
  /\ wait.pc = "waiting"
  /\ waitReady(proc["term"])
  /\ \E err \in (IF proc["term"].mode = "tty" THEN {FALSE} ELSE BOOLEAN) :
       wait' = [pc |-> "returned", closeCalled |-> proc["term"].calls > 0,
                err |-> err]
  /\ proc' = [proc EXCEPT !["term"].child = IF @ = "exited" THEN "reaped" ELSE @]
  /\ UNCHANGED <<once, call>>
  /\ ProcStep

CloserSteps ==
  \E k \in Callers :
    \/ OnceFast(k) \/ OnceLock(k) \/ OnceSlow(k) \/ RunClose(k) \/ RunStop(k)
    \/ OnceDone(k) \/ CloseReturn(k)

NextProc ==
  \/ \E k \in Callers, o \in Objs : CallClose(k, o)
  \/ CloserSteps
  \/ \E o \in Objs : ChildExit(o)
  \/ WaitCall
  \/ WaitReturn

\* the Go scheduler lets a goroutine inside Close, Stop or Wait run
SpecProc ==
  /\ InitProc /\ [][NextProc]_vars
  /\ WF_vars(CloserSteps)
  /\ WF_vars(WaitReturn)

\* ======================================================== checked properties
\* the cap a bridge constructed with options o enforces
CapOf(o) == IF o.MaxClients <= 0 THEN 1 ELSE o.MaxClients

\* C1: under every interleaving of admissions, removals and Close, the
\* number of connections in the client set stays within 0..maxClients, a
\* configured maxClients <= 0 counting as 1.
C1_ClientCountWithinCap ==
  \A o \in AdmitOptions :
    srv = New(TheToken, o) =>
      /\ Cardinality(conns) >= 0
      /\ Cardinality(conns) <= CapOf(o)

\* the set is full and a further authenticated connection was turned away
C1_Witness ==
  /\ Cardinality(conns) = srv.maxClient
  /\ \E c \in Conns : c \notin conns /\ closeCode[c] = CloseTryAgainLater

BlockedNotice == Txt("readonly", "Input blocked: read-only session")

\* how many times frame fr was written to socket c
Count(c, fr) == Cardinality({i \in 1..Len(recv[c]) : recv[c][i] = fr})

\* C2: bytes reach the pty only on behalf of a connection that completed
\* authentication and only on a bridge that is not readOnly; on a readOnly
\* bridge every input message is answered with a readonly notice (written,
\* or being written, unless the socket has been closed meanwhile) and
\* nothing reaches the pty.
C2_PtyWritesAuthedAndWritable ==
  /\ \A w \in ptyIn : w.authed /\ ~w.readonly
  /\ \A c \in Conns : hinput[c] > 0 => authed[c]
  /\ srv.readonly =>
       /\ ptyIn = {}
       /\ \A c \in Conns :
            \/ ~sockOk[c]
            \/ hinput[c] = Count(c, BlockedNotice)
                            + (IF hpc[c] = "w_blocked" THEN 1 ELSE 0)

\* a readOnly bridge has answered an input message with the notice
C2_Witness ==
  /\ srv.readonly
  /\ \E c \in Conns : hinput[c] = 1 /\ Count(c, BlockedNotice) = 1
  /\ ptyIn = {}

\* ------------------------------------------------- the runtime registry
MaxSaves == 2     \* SaveSession calls of each session
MaxReads == 2     \* LoadSession / ListSessions calls of the reading command
MaxPrunes == 2    \* PruneStaleSessions calls

\* the pid and the start time of the process of session s
Pid(s) == IF s = "a" THEN 7 ELSE 9
StartedAt(s) == IF s = "a" THEN 1 ELSE 2

\* the record session s writes with its v-th SaveSession
Record(s, v) ==
  [id |-> s, pid |-> Pid(s), started |-> StartedAt(s), updated |-> v, count |-> 0]

\* strconv of the numbers a record holds
Itoa(n) ==
  CASE n = 0 -> "0" [] n = 1 -> "1" [] n = 2 -> "2" [] n = 3 -> "3"
    [] n = 4 -> "4" [] n = 5 -> "5" [] n = 6 -> "6" [] n = 7 -> "7"
    [] n = 8 -> "8" [] n = 9 -> "9"

Atoi(t) == CHOOSE n \in 0..9 : Itoa(n) = t

\* json.MarshalIndent: the text of a record, token by token
MarshalIndent(r) ==
  <<"{", r.id, Itoa(r.pid), Itoa(r.started), Itoa(r.updated), Itoa(r.count), "}">>

\* json.Unmarshal accepts a whole object only; a prefix of one is an error
UnmarshalOk(d) == Len(d) = 7 /\ d[1] = "{" /\ d[7] = "}"

Unmarshal(d) ==
  [id |-> d[2], pid |-> Atoi(d[3]), started |-> Atoi(d[4]),
   updated |-> Atoi(d[5]), count |-> Atoi(d[6])]

\* os.ReadFile followed by json.Unmarshal
Parses(f) == f.exists /\ UnmarshalOk(f.data)

RegStep == UNCHANGED <<fc, fcEv, fcOp, oq, procVars, bridgeVars, supVars>>

SaveTargetInPlace(s) == Path(s)

\* the file SaveSession writes the text to
SaveTarget(s) == TempName(s)

\* SaveSession up to json.MarshalIndent
SaveBegin(s) ==
  /\ sess[s].alive /\ sess[s].pc = "idle" /\ sess[s].saves < MaxSaves
  /\ s # ""
  /\ sess' = [sess EXCEPT ![s].pc = "create",
                          ![s].buf = MarshalIndent(Record(s, sess[s].saves + 1))]
  /\ UNCHANGED <<dir, reader, pruner>> /\ RegStep

\* os.CreateTemp and Chmod: an empty file
SaveCreateTemp(s) ==
  /\ sess[s].alive /\ sess[s].pc = "create"
  /\ dir' = [dir EXCEPT ![SaveTarget(s)] = [exists |-> TRUE, data |-> <<>>]]
  /\ sess' = [sess EXCEPT ![s].pc = "write"]
  /\ UNCHANGED <<reader, pruner>> /\ RegStep

\* tmp.Write: some more of the text reaches the file; tmp.Close after the last
SaveWrite(s) ==
  /\ sess[s].alive /\ sess[s].pc = "write"
  /\ LET have == Len(dir[SaveTarget(s)].data)
         all == Len(sess[s].buf)
     IN \E k \in 1..(all - have) :
          /\ dir' = [dir EXCEPT ![SaveTarget(s)].data =
                       SubSeq(sess[s].buf, 1, have + k)]
          /\ sess' = [sess EXCEPT ![s].pc =
                        IF have + k = all THEN "rename" ELSE "write"]
  /\ UNCHANGED <<reader, pruner>> /\ RegStep

\* tmp.Write or tmp.Close fails: SaveSession returns the error
SaveWriteFail(s) ==
  /\ sess[s].alive /\ sess[s].pc = "write"
  /\ sess' = [sess EXCEPT ![s].pc = "cleanup"]
  /\ UNCHANGED <<dir, reader, pruner>> /\ RegStep

\* os.Rename(tmp.Name(), path)
SaveRename(s) ==
  /\ sess[s].alive /\ sess[s].pc = "rename"
  /\ dir' = IF SaveTarget(s) = Path(s) THEN dir
            ELSE [dir EXCEPT ![Path(s)] = dir[SaveTarget(s)],
                             ![SaveTarget(s)] = NoFile]
  /\ sess' = [sess EXCEPT ![s].pc = "cleanup", ![s].ver = sess[s].saves + 1]
  /\ UNCHANGED <<reader, pruner>> /\ RegStep

\* the deferred os.Remove(tmp.Name())
SaveCleanup(s) ==
  /\ sess[s].alive /\ sess[s].pc = "cleanup"
  /\ dir' = [dir EXCEPT ![SaveTarget(s)] = NoFile]
  /\ sess' = [sess EXCEPT ![s].pc = "idle", ![s].saves = @ + 1, ![s].buf = <<>>]
  /\ UNCHANGED <<reader, pruner>> /\ RegStep

\* RemoveSession: a missing file is not an error
RemoveSessionFile(d, id) == IF id = "" THEN d ELSE [d EXCEPT ![Path(id)] = NoFile]

\* the session ends: runServer's deferred RemoveSession, then the process exits
SessionExit(s) ==
  /\ sess[s].alive /\ sess[s].pc = "idle" /\ sess[s].ver > 0
  /\ dir' = RemoveSessionFile(dir, s)
  /\ sess' = [sess EXCEPT ![s].alive = FALSE]
  /\ UNCHANGED <<reader, pruner>> /\ RegStep

\* the process of the session is killed, wherever it is
SessionKill(s) ==
  /\ sess[s].alive /\ sess[s].saves + sess[s].ver > 0
  /\ sess' = [sess EXCEPT ![s].alive = FALSE]
  /\ UNCHANGED <<dir, reader, pruner>> /\ RegStep

\* the versions on disk when a read begins
Committed == [s \in Sessions |-> sess[s].ver]

\* LoadSession(id)
LoadSession(id) ==
  /\ reader.pc = "idle" /\ reader.n < MaxReads
  /\ id # ""
  /\ LET f == dir[Path(id)]
     IN reader' = [reader EXCEPT !.pc = "done", !.op = "load", !.id = id,
                                 !.lo = Committed, !.err = ~Parses(f),
                                 !.out = IF Parses(f) THEN <<Unmarshal(f.data)>>
                                         ELSE <<>>]
  /\ UNCHANGED <<dir, sess, pruner>> /\ RegStep

\* ListSessions: os.ReadDir, the entries whose name ends in .json
ReadDir(op) ==
  /\ reader.pc = "idle"
  /\ reader' = [reader EXCEPT !.pc = "files", !.op = op, !.id = "",
                              !.lo = Committed, !.err = FALSE, !.out = <<>>,
                              !.entries = SelectSeq(FileOrder,
                                                    LAMBDA f : dir[f].exists)]

ListReadDir ==
  /\ reader.n < MaxReads
  /\ ReadDir("list")
  /\ UNCHANGED <<dir, sess, pruner>> /\ RegStep

\* ListSessions: the next entry is read and parsed, or skipped
ListReadFile ==
  /\ reader.pc = "files" /\ reader.entries # <<>>
  /\ LET f == dir[Head(reader.entries)]
     IN reader' = [reader EXCEPT !.entries = Tail(@),
                                 !.out = IF Parses(f) THEN Append(@, Unmarshal(f.data))
                                         ELSE @]
  /\ UNCHANGED <<dir, sess, pruner>> /\ RegStep

\* sort.Slice by StartedAt, latest first (an insertion sort at these sizes)
RECURSIVE InsertByStartedAt(_, _)
InsertByStartedAt(r, sorted) ==
  IF sorted = <<>> THEN <<r>>
  ELSE IF r.started > Head(sorted).started THEN <<r>> \o sorted
  ELSE <<Head(sorted)>> \o InsertByStartedAt(r, Tail(sorted))

RECURSIVE SortByStartedAt(_)
SortByStartedAt(q) ==
  IF q = <<>> THEN <<>>
  ELSE InsertByStartedAt(q[Len(q)], SortByStartedAt(SubSeq(q, 1, Len(q) - 1)))

\* ListSessions returns
ListSort ==
  /\ reader.pc = "files" /\ reader.entries = <<>>
  /\ reader' = [reader EXCEPT !.out = SortByStartedAt(@),
                              !.pc = IF reader.op = "prune" THEN "prune" ELSE "done"]
  /\ UNCHANGED <<dir, sess, pruner>> /\ RegStep

\* the command goes on to its next read
ReaderReturn ==
  /\ reader.pc = "done"
  /\ reader' = [reader EXCEPT !.pc = "idle", !.n = @ + 1]
  /\ UNCHANGED <<dir, sess, pruner>> /\ RegStep

\* ProcessAlive: no pid below 1, else the null-signal probe
ProcessAlive(pid) == pid > 0 /\ \E s \in Sessions : sess[s].alive /\ Pid(s) = pid

\* PruneStaleSessions: the call of ListSessions
PruneBegin ==
  /\ pruner.n < MaxPrunes
  /\ ReadDir("prune")
  /\ pruner' = [pruner EXCEPT !.removed = <<>>,
                              !.before = IF pruner.n = 0 THEN dir ELSE @]
  /\ UNCHANGED <<dir, sess>> /\ RegStep

removeAlways(st) == TRUE

\* whether the loop of PruneStaleSessions removes this record
remove(st) == st.id # "" /\ ~ProcessAlive(st.pid)

\* PruneStaleSessions: one round of the loop over the listed records
PruneLoop ==
  /\ reader.pc = "prune" /\ reader.out # <<>>
  /\ LET st == Head(reader.out)
     IN /\ dir' = IF remove(st) THEN RemoveSessionFile(dir, st.id) ELSE dir
        /\ pruner' = [pruner EXCEPT !.removed =
                        IF remove(st) THEN Append(@, st.id) ELSE @]
  /\ reader' = [reader EXCEPT !.out = Tail(@)]
  /\ UNCHANGED sess /\ RegStep

\* PruneStaleSessions returns the ids it removed
PruneReturn ==
  /\ reader.pc = "prune" /\ reader.out = <<>>
  /\ reader' = [reader EXCEPT !.pc = "idle"]
  /\ pruner' = [pruner EXCEPT !.n = @ + 1,
                              !.first = IF pruner.n = 0 THEN pruner.removed ELSE @,
                              !.after = IF pruner.n = 0 THEN dir ELSE @]
  /\ UNCHANGED <<dir, sess>> /\ RegStep

\* --- SaveSession and LoadSession as whole calls, on any session state
\* the ids a caller may hand over, and their characters
TripIds == {"a", " a ", " ", ""}

IdChars(id) ==
  CASE id = " a " -> <<" ", "a", " ">> [] id = " " -> <<" ">> [] id = "" -> <<>>
    [] OTHER -> <<id>>

\* strings.TrimSpace of an id
TrimID(id) == LET t == TrimSpace(IdChars(id)) IN IF t = <<>> THEN "" ELSE t[1]

TripFiles == {Path(id) : id \in {"a", " a "}}

\* the states handed to SaveSession: 0 is the zero time
TripStates ==
  [id : TripIds, pid : {0, 7}, started : {0, 3}, updated : {0, 5}, count : {0, 2}]

SaveTimes == {1, 2}

\* what SaveSession makes of the state before it marshals it
stamp(st, t) ==
  [st EXCEPT !.started = IF @ = 0 THEN t ELSE @, !.updated = t]

\* whether SaveSession accepts the state
saveAccepts(st) == TrimID(st.id) # ""

savePathTrimmed(st) == Path(TrimID(st.id))

\* the file SaveSession renames the temporary file to
savePath(st) == Path(st.id)

\* the runtime directory after SaveSession(st) at time t returned nil
saveSession(d, st, t) ==
  [d EXCEPT ![savePath(st)] = [exists |-> TRUE,
                               data |-> MarshalIndent(stamp(st, t))]]

\* LoadSession(id): [err, state]
loadSession(d, id) ==
  LET f == d[Path(TrimID(id))]
  IN IF TrimID(id) = "" \/ ~Parses(f)
       THEN [err |-> TRUE, state |-> NoRecord]
       ELSE [err |-> FALSE, state |-> Unmarshal(f.data)]

InitTrip ==
  /\ FlowIdle /\ OriginIdle /\ ProcOff /\ BridgeIdle
  /\ dir = [f \in TripFiles |-> NoFile]
  /\ \E st \in TripStates :
       sess = [pc |-> "start", arg |-> st, written |-> NoRecord, saveErr |-> FALSE]
  /\ reader = [err |-> FALSE, state |-> NoRecord]
  /\ pruner = <<>>

TripSave ==
  /\ sess.pc = "start"
  /\ IF saveAccepts(sess.arg)
       THEN \E t \in SaveTimes :
              /\ dir' = saveSession(dir, sess.arg, t)
              /\ sess' = [sess EXCEPT !.pc = "saved", !.written = stamp(sess.arg, t)]
       ELSE /\ sess' = [sess EXCEPT !.pc = "saved", !.saveErr = TRUE]
            /\ UNCHANGED dir
  /\ UNCHANGED <<reader, pruner>> /\ RegStep

TripLoad ==
  /\ sess.pc = "saved"
  /\ reader' = loadSession(dir, sess.arg.id)
  /\ sess' = [sess EXCEPT !.pc = "loaded"]
  /\ UNCHANGED <<dir, pruner>> /\ RegStep

NextTrip == TripSave \/ TripLoad

SpecTrip == InitTrip /\ [][NextTrip]_vars

\* sessions that save their records while a command loads and lists them
InitSave == FlowIdle /\ OriginIdle /\ ProcOff /\ RegIdle /\ BridgeIdle

NextSave ==
  \/ \E s \in Sessions : SaveBegin(s)
  \/ \E s \in Sessions : SaveCreateTemp(s)
  \/ \E s \in Sessions : SaveWrite(s)
  \/ \E s \in Sessions : SaveWriteFail(s)
  \/ \E s \in Sessions : SaveRename(s)
  \/ \E s \in Sessions : SaveCleanup(s)
  \/ \E id \in Sessions : LoadSession(id)
  \/ ListReadDir \/ ListReadFile \/ ListSort \/ ReaderReturn

SpecSave == InitSave /\ [][NextSave]_vars

\* sessions that save, end or are killed, and then a command that prunes:
\* no session is in SaveSession, and none acts, while the command runs
NoPruneYet == pruner.n = 0 /\ reader.pc = "idle"
NoSaveRunning == \A s \in Sessions : sess[s].alive => sess[s].pc = "idle"

NextPrune ==
  \/ NoPruneYet /\ \E s \in Sessions : SaveBegin(s)
  \/ NoPruneYet /\ \E s \in Sessions : SaveCreateTemp(s)
  \/ NoPruneYet /\ \E s \in Sessions : SaveWrite(s)
  \/ NoPruneYet /\ \E s \in Sessions : SaveRename(s)
  \/ NoPruneYet /\ \E s \in Sessions : SaveCleanup(s)
  \/ NoPruneYet /\ \E s \in Sessions : SessionExit(s)
  \/ NoPruneYet /\ \E s \in Sessions : SessionKill(s)
  \/ NoSaveRunning /\ PruneBegin
  \/ ListReadFile \/ ListSort \/ PruneLoop \/ PruneReturn

SpecPrune == InitSave /\ [][NextPrune]_vars

\* ---------------------------------------------------------- the handshake
\* the handler of c leaves authenticate in this step
Authenticates(c) == hpc[c] = "auth" /\ hpc'[c] # "auth"

\* the first handshake frame of c is a text auth message with the token
GoodFirst(c) ==
  /\ hin[c][1].kind = "text"
  /\ hin[c][1].type = "auth"
  /\ hin[c][1].token = srv.token

\* the first handshake frame of c is a text auth message with another token
Mismatch(c) ==
  /\ hin[c][1].kind = "text"
  /\ hin[c][1].type = "auth"
  /\ hin[c][1].token # srv.token

\* the bridge's token has an expiry and the clock has reached it
Expired == srv.tokenExpiresAt # 0 /\ now >= srv.tokenExpiresAt

\* c is refused in this step: auth_error with message m, a policy-violation
\* close, no admission and no client-count callback
RefusedWith(c, m) ==
  /\ hpc'[c] = "done"
  /\ ~authed'[c]
  /\ recv'[c] = <<Txt("auth_error", m)>>
  /\ closeCode'[c] = ClosePolicyViolation
  /\ ~sockOk'[c]
  /\ conns' = conns
  /\ cbLast' = cbLast /\ cbBy' = cbBy

AuthErrors == {"i/o timeout", "expected auth message", "invalid auth payload",
               "auth required", "token expired", "invalid token",
               "invalid code"}

\* a refused connection stays out of the client set and reports no count
RefusedForGood ==
  \A c \in Conns :
    closeCode[c] = ClosePolicyViolation =>
      hpc[c] = "done" /\ c \notin conns /\ H(c) \notin cbBy

SecondIsAuth(c) == hin[c][2].kind = "text" /\ hin[c][2].type = "auth"

OriginDenotes(o) ==
  CASE o \in { <<"https", "://", "abc123.trycloudflare.com">>,
               <<"https", "://", "ABC123.TryCloudflare.com", ":", "8443">>,
               <<" ", "https", "://", "abc123.trycloudflare.com", " ">> }
         -> "abc123.trycloudflare.com"
    [] o = <<"https", "://", "127.0.0.1", ":", "8080">> -> "127.0.0.1"
    [] o \in { <<"http", "://", "localhost", ":", "3000">>,
               <<"http", "://", "LOCALHOST">> } -> "localhost"
    [] o = <<"http", "://", "[::1]", ":", "3000">> -> "::1"
    [] o = <<"https", "://", "evil.example.com">> -> "evil.example.com"
    [] o = <<"https", "://", "LocalHost.Evil.com">> -> "localhost.evil.com"
    [] OTHER -> ""

HostDenotes(h) ==
  CASE h \in { <<"abc123.trycloudflare.com">>,
               <<"ABC123.TryCloudflare.com", ":", "443">> }
         -> "abc123.trycloudflare.com"
    [] h = <<"127.0.0.1", ":", "8080">> -> "127.0.0.1"
    [] h = <<"[::1]", ":", "8080">> -> "::1"
    [] h = <<"other.example.com">> -> "other.example.com"
    [] h = <<"evil.example.com", ":", "443">> -> "evil.example.com"

\* the Origin header is empty (header values carry no surrounding blanks)
OriginEmpty(o) == o \in {<<>>, <<" ">>}

BinIds(c) == [i \in 1..Len(recv[c]) |-> recv[c][i].id]

\* C7: the binary frames a client receives are, in order and without
\* duplication or gaps, a contiguous run of the chunks read from the pty,
\* each frame intact; any two clients receive the chunks they have in
\* common in the same relative order.
C7_BinaryFramesContiguous ==
  \A c \in Conns :
    /\ ~torn[c]
    /\ \A i \in 1..Len(recv[c]) :
         /\ recv[c][i].t = "bin"
         /\ BinIds(c)[i] \in 1..chunksRead
         /\ i > 1 => BinIds(c)[i] = BinIds(c)[i - 1] + 1

\* C8: no two goroutines ever write to the same client socket at the same
\* time.
C8_OneWriterPerSocket ==
  \A c \in Conns : Cardinality(writing[c]) <= 1

\* ------------------------------------------------------ the flow controller
\* C9: after any sequence of onSent, onAck and reset calls, pending > high
\* implies paused; an onAck that leaves a paused controller with
\* pending <= low unpauses it and returns Resume.
C9_FlowPausedAboveHigh ==
  /\ [](fc.pending > fc.high => fc.paused)
  /\ [][(fcOp'.op = "onAck" /\ fcOp'.k = fcOp.k + 1
          /\ fc.paused /\ fc'.pending <= fc.low)
         => (~fc'.paused /\ fcEv' = flowEventResume)]_vars

\* an onAck has just resumed a controller that had been paused
C9_Witness ==
  /\ fcOp.op = "onAck"
  /\ fcEv = flowEventResume
  /\ ~fc.paused /\ fc.pending <= fc.low

\* C10: whenever a client is admitted into an empty client set, the flow
\* controller is at its clean baseline, pending = 0 and not paused.
C10_CleanBaselineOnAdmission ==
  [][(conns = {} /\ conns' # {}) => (flow.pending = 0 /\ ~flow.paused)]_vars

\* ------------------------------------------------- pause and resume notices
FlowResume == Txt("flow_resume", "Output resumed")

\* where a broadcasting goroutine stands
PosOf(g, pp, hp) == IF g = Pump THEN pp ELSE hp[g[2]]

\* a client's ack is taken from the socket of c in this step
AckTaken(c) == hmsgs'[c] = hmsgs[c] + 1

\* C11: when the controller pauses, the pump goes on to broadcast
\* flow_pause; when a client's ack brings the pending count of a paused
\* controller to low or less, the controller is unpaused and the handler
\* goes on to broadcast flow_resume; a text broadcast targets every client
\* connected when it takes its snapshot and ends only when it has written to
\* each of them; the pump waits while the controller is paused and goes on
\* to read only once it is not.
C11_PauseAndResumeAnnounced ==
  /\ [][/\ (~flow.paused /\ flow'.paused)
             => (ppc' = "bt_snap" /\ bframe'[Pump] = FlowPause)
        /\ \A c \in Conns :
             (AckTaken(c) /\ flow.paused /\ flow'.pending <= flow.low)
               => /\ ~flow'.paused
                  /\ hpc'[c] = "bt_snap"
                  /\ bframe'[H(c)] = FlowResume
        /\ \A g \in Broadcasters :
             /\ (PosOf(g, ppc, hpc) = "bt_snap" /\ PosOf(g, ppc', hpc') # "bt_snap")
                  => bsnap'[g] = conns
             /\ (PosOf(g, ppc, hpc) = "bt_write" /\ bsnap'[g] # bsnap[g])
                  => /\ bcur[g] \in bsnap[g]
                     /\ g \in writing[bcur[g]]
                     /\ bsnap'[g] = bsnap[g] \ {bcur[g]}
             /\ (PosOf(g, ppc, hpc) = "bt_write" /\ PosOf(g, ppc', hpc') # "bt_write")
                  => bsnap'[g] = {}
        /\ (ppc = "wait" /\ ppc' # "wait") => (~flow.paused \/ ctxDone)
        /\ (ppc = "wait" /\ ppc' = "read") => ~flow.paused]_vars
  /\ [](ppc = "read" => ~flow.paused)

\* a handler is broadcasting flow_resume to both clients after an ack that
\* resumed a paused controller, and the pump is back at its read
C11_Witness ==
  /\ \E c \in Conns :
       /\ hpc[c] = "bt_write"
       /\ bframe[H(c)] = FlowResume
       /\ bsnap[H(c)] = Conns
  /\ ~flow.paused
  /\ chunksRead >= 1
  /\ ppc = "read"

\* -------------------------------------------------------- the reported count
\* C12: once a count has been reported, the count last passed to the
\* callback is the size of the client set in every state (admission,
\* removal and Close change the set and report it inside one hold of connMu);
\* the set is never non-empty before a first report; every step that changes
\* the set reports the new size in that same step, so the reports come in
\* the order of the changes; the supervisor's clientCount is the count last
\* reported.
C12_ReportedCountExact ==
  /\ [](cbLast # -1 => cbLast = Cardinality(conns))
  /\ [](cbLast = -1 => conns = {} /\ cbBy = {})
  /\ [](state.ClientCount = (IF cbLast = -1 THEN 0 ELSE cbLast))
  /\ [][(conns' # conns) =>
          /\ cbLast' = Cardinality(conns')
          /\ state'.ClientCount = Cardinality(conns')
          /\ \E g \in Broadcasters \cup {Closer} : g \in cbBy']_vars

\* one of two admitted clients has left: the last report is 1
C12_Witness ==
  /\ cbLast = 1
  /\ Cardinality(conns) = 1
  /\ \E c \in Conns : c \notin conns /\ hpc[c] = "done" /\ H(c) \in cbBy

\* ------------------------------------------------------------ the supervisor
\* C13: in every state (the closure updates clientCount and idleDeadline
\* inside one hold of stateMu), from the initial record on, idleDeadline is
\* non-zero iff clientCount = 0 and idleTimeout > 0.
C13_IdleDeadlineSetIffNoClient ==
  (state.IdleDeadline # 0) <=> (state.ClientCount = 0 /\ opt.idleTimeout > 0)

\* with an idle timeout, the only client has left at time 2: the deadline,
\* cleared while it was connected, is set again, to a later time
C13_Witness ==
  /\ opt.idleTimeout > 0
  /\ cbLast = 0 /\ cpc = "idle"
  /\ state.ClientCount = 0
  /\ state.IdleDeadline = 2 + opt.idleTimeout

\* the idle event is sent in this step
IdleSent ==
  /\ Len(eventCh') = Len(eventCh) + 1
  /\ eventCh'[Len(eventCh')].source = "idle"

\* C14: the idle event is emitted only when clientCount = 0 and the clock
\* has reached idleDeadline; runServer never leaves its select for the idle
\* event while a client is connected.
C14_IdleOnlyWithoutClients ==
  [][/\ IdleSent =>
          /\ state.ClientCount = 0
          /\ state.IdleDeadline # 0
          /\ ~(now < state.IdleDeadline)
     /\ (mpc = "select" /\ mpc' = "shutdown" /\ cause' = "idle") =>
          (state.ClientCount = 0 /\ conns = {})]_vars

\* no client is connected and the idle deadline has been reached
IdleDueNow ==
  /\ opt.idleTimeout > 0
  /\ state.ClientCount = 0
  /\ state.IdleDeadline # 0
  /\ now >= state.IdleDeadline

Returned == mpc \in {"returned", "exited"}

\* C15: with an idle timeout, once no client has been connected until the
\* idle deadline, runServer eventually returns unless a client connects
\* first; a run that the idle event ended returns 0.
C15_IdleTimeoutShutsDown ==
  /\ (IdleDueNow ~> (Returned \/ state.ClientCount > 0))
  /\ []((Returned /\ cause = "idle") => exitCode = 0)

\* the idle event ended the run of a session a client had used and left
C15_Witness ==
  /\ Returned
  /\ cause = "idle"
  /\ exitCode = 0
  /\ \E c \in Conns : hpc[c] = "done" /\ H(c) \in cbBy

\* C16: once runServer has returned, whatever ended it, the runtime record
\* of the session is not on disk.
C16_NoRecordAfterReturn ==
  mpc = "returned" => ~disk

\* which steps of the shutdown have been taken
Cancelled == ctxDone
SocketsClosed == cpc \in {"reset", "done"}
PtyClosed == ~ptyOpen
Stopped(child) == \E i \in 1..Len(stopped) : stopped[i] = child
Started(child) == \E i \in 1..Len(managed) : managed[i] = child
RecordRemoved == mpc \in {"d_cancel", "returned", "exited"}
HTTPShutDown == lpc = "closed"

\* C17: the shutdown cancels the bridge, closes the client sockets, closes
\* the pty, stops the tunnel child, stops the keep-awake child, removes the
\* runtime record and shuts the HTTP server down, in this order: a step is
\* taken only when the steps before it have been.
C17_ShutdownOrder ==
  /\ SocketsClosed => Cancelled
  /\ PtyClosed => SocketsClosed
  /\ Stopped("tunnel") => PtyClosed
  /\ Stopped("caffeinate") => (PtyClosed /\ ~Started("tunnel"))
  /\ RecordRemoved => (PtyClosed /\ managed = <<>>)
  /\ HTTPShutDown => RecordRemoved

\* ------------------------------------------------- admission and greeting
ClientLimit == Txt("info", "another client is already connected")

\* C18: when the client set already holds maxClients connections, a further
\* connection that has authenticated is sent info "another client is already
\* connected", is closed with TryAgainLater, and the client set, the
\* reported count and the supervisor's state stay as they were; such a
\* connection is never in the set and never reports a count.
C18_FullSetTurnsAway ==
  /\ [][\A c \in Conns :
          (hpc[c] = "admit" /\ hpc'[c] # "admit"
             /\ Cardinality(conns) >= srv.maxClient) =>
            /\ authed[c]
            /\ recv'[c] = <<ClientLimit>>
            /\ closeCode'[c] = CloseTryAgainLater
            /\ ~sockOk'[c]
            /\ hpc'[c] = "done"
            /\ conns' = conns
            /\ cbLast' = cbLast /\ cbBy' = cbBy
            /\ state' = state]_vars
  /\ [](\A c \in Conns :
          closeCode[c] = CloseTryAgainLater =>
            /\ recv[c] = <<ClientLimit>>
            /\ c \notin conns /\ H(c) \notin cbBy /\ hpc[c] = "done")

\* on a bridge for one client, the second connection was turned away with
\* the notice while the first one is served and the count reported is 1
C18_Witness ==
  /\ srv.maxClient = 1
  /\ cbLast = 1
  /\ \E c \in conns : hpc[c] = "read"
  /\ \E c \in Conns :
       /\ authed[c]
       /\ recv[c] = <<ClientLimit>>
       /\ closeCode[c] = CloseTryAgainLater

AuthOk == Txt("auth_ok", "")
ReadOnlyNotice == Txt("readonly", "Read-only mode enabled")

C20_ClosedForGood ==
  cpc = "done" =>
    /\ conns = {}
    /\ flow.pending = 0 /\ ~flow.paused
    /\ cbLast = 0
    /\ state.ClientCount = 0

\* -------------------------------------------------- terminal and tunnel
\* C21: however many Close calls on the Terminal and Stop calls on the
\* tunnel Handle run, one after another or at once, the child is killed at
\* most once, at most one call (the one that ran the body) returns an error,
\* and a call that begins after another has returned returns nil.
C21_CloseOnce ==
  /\ \A o \in Objs : proc[o].kills <= 1 /\ proc[o].errs <= 1
  /\ \A k \in Callers :
       /\ call[k].pc \in {"ret", "idle"} /\ ~call[k].ran => ~call[k].retErr
       /\ call[k].pc \in {"ret", "idle"} /\ call[k].after => ~call[k].retErr
       /\ call[k].after => ~call[k].ran

\* both callers have made all their calls: the terminal was closed and the
\* tunnel stopped, one Stop returned an error and a later one returned nil
C21_Witness ==
  /\ proc["term"].kills = 1
  /\ proc["tun"].kills = 1
  /\ proc["tun"].errs = 1
  /\ \A k \in Callers : call[k].n = MaxCloseCalls /\ call[k].pc = "idle"
  /\ \E k \in Callers : call[k].obj = "tun" /\ call[k].after /\ ~call[k].retErr

\* ------------------------------------------------------------ the launch
\* the tunnel stage ends in this step without a running tunnel although the
\* tunnel is enabled: the health wait or the tunnel start failed
TunnelFails ==
  /\ mpc = "tunnel" /\ mpc' # "tunnel"
  /\ opt.enableTunnel
  /\ managed' = managed

\* the tunnel child was started (it runs or has been stopped)
TunnelRan == Started("tunnel") \/ Stopped("tunnel")

\* C22: when the tunnel is enabled and the health wait or the tunnel start
\* fails, runServer returns 1 without serving iff tunnelRequired; otherwise
\* it goes on to serve with the share URL and the record's URL on the local
\* base and no public URL in the record. runServer returns without having
\* reached its select only in that fatal case.
C22_TunnelFailure ==
  /\ [][TunnelFails =>
          IF opt.tunnelRequired
            THEN mpc' = "d_managed" /\ exitCode' = 1
            ELSE /\ mpc' = "caffeinate" /\ exitCode' = 0
                 /\ shareURL' = "local"
                 /\ state'.URL = "local" /\ state'.PublicURL = ""]_vars
  /\ [](mpc \notin {"tunnel", "caffeinate", "select"} /\ cause = ""
          => /\ exitCode = 1
             /\ opt.enableTunnel /\ opt.tunnelRequired
             /\ ~TunnelRan)
  /\ [](~TunnelRan
          => shareURL = "local" /\ state.URL = "local" /\ state.PublicURL = "")
  /\ [](mpc \in {"returned", "exited"} /\ cause = "" => exitCode = 1)

\* a session whose optional tunnel failed is serving a client local-only
C22_Witness ==
  /\ opt.enableTunnel /\ ~opt.tunnelRequired
  /\ mpc = "select"
  /\ ~TunnelRan
  /\ shareURL = "local" /\ state.PublicURL = ""
  /\ state.ClientCount = 1

\* ---------------------------------------------------------- the exit code
\* runServer's select ends in this step
Selects == mpc = "select" /\ mpc' # "select"

\* C23: a supervisor that reached its select returns 1 iff the select took
\* the terminal event with an error or the listener's error, and 0 when it
\* took a signal, the idle event or the terminal event without error; the
\* code set by the select is the code returned.
C23_ExitCode ==
  /\ [][Selects =>
          /\ cause' \in {"signal", "idle", "terminal", "server"}
          /\ cause' = "signal" => exitCode' = 0
          /\ cause' = "idle" => exitCode' = 0
          /\ cause' = "terminal" =>
               exitCode' = IF Head(eventCh).err THEN 1 ELSE 0
          /\ cause' = "server" => Head(eventCh).err /\ exitCode' = 1]_vars
  /\ [][cause # "" => exitCode' = exitCode /\ cause' = cause]_vars
  /\ [](cause = "" /\ mpc \in {"tunnel", "caffeinate", "select"} => exitCode = 0)

\* the supervisor returned 1 after the listener failed
C23_Witness == mpc = "returned" /\ cause = "server" /\ exitCode = 1


\* ------------------------------------------------- a terminal on a tty path
TTYPath == proc["term"].mode = "tty"

WriteEnabled(c) == c \in conns /\ ~srv.readonly

\* C25: at any time at most one admitted client is write-enabled.
C25_AtMostOneWriter == Cardinality({c \in Conns : WriteEnabled(c)}) <= 1

\* ------------------------------------------------------ the read deadline
\* the read of c fails in this step because its deadline has passed
TimesOut(c) == ~rd[c].timedOut /\ rd'[c].timedOut

\* C26: a read fails on its deadline only when the client has delivered no
\* frame and no pong for clientReadTimeout, so a client that keeps
\* delivering frames or pongs at shorter intervals is never disconnected by
\* the deadline; and a client whose deadline has passed while its handler
\* reads is removed from the client set.
C26_DeadlineFollowsDeliveries ==
  /\ [][\A c \in Conns :
          TimesOut(c) => now - rd[c].last >= srv.clientReadTimeout]_vars
  /\ \A c \in Conns :
       (c \in conns /\ hpc[c] = "read" /\ now >= rd[c].deadline) ~> (c \notin conns)

\* the part of C26 about a silent client: its read times out only after
\* clientReadTimeout without a delivery when it has delivered no frame, and
\* it is then removed and the smaller count reported
C26_SilentClientRemoved ==
  /\ [][\A c \in Conns :
          TimesOut(c) /\ hmsgs[c] = 0 =>
            now - rd[c].last >= srv.clientReadTimeout]_vars
  /\ \A c \in Conns :
       (c \in conns /\ hpc[c] = "read" /\ now >= rd[c].deadline) ~> (c \notin conns)
  /\ [](\A c \in Conns : hpc[c] \in {"rm_close", "rm_reset", "done"} /\ rd[c].timedOut
          => c \notin conns /\ cbLast = Cardinality(conns))

\* ------------------------------------------------------- a failed write
\* a write of broadcaster g returns in this step
WriteReturns(g) == bcur[g] # 0 /\ bcur'[g] = 0

\* C27: when a write of a broadcast to one client fails, that client's
\* socket is closed and no other; the broadcast goes on to the clients of
\* its snapshot still to be written, and a write to a client that succeeds
\* delivers the frame; the pump ends only when the pty has ended and its
\* broadcasts come to their end; and the client whose socket was closed is
\* eventually out of the client set, the reported count being the size of
\* the set.
C27_FailedWriteClosesOnlyThatClient ==
  /\ [][\A g \in Broadcasters :
          WriteReturns(g) =>
            LET c == bcur[g]
            IN /\ bsnap'[g] = bsnap[g] \ {c}
               /\ \A d \in Conns \ {c} : sockOk'[d] = sockOk[d] /\ recv'[d] = recv[d]
               /\ IF WriteOk(c)
                    THEN /\ sockOk'[c]
                         /\ bframe[g].t \in obs => recv'[c] = Append(recv[c], bframe[g])
                    ELSE /\ ~sockOk'[c]
                         /\ recv'[c] = recv[c]
                         /\ ppc' # "done" \/ pcur.err]_vars
  /\ [](ppc = "done" => pcur.err)
  /\ [](cbLast # -1 => cbLast = Cardinality(conns))
  /\ (bsnap[Pump] # {}) ~> (bsnap[Pump] = {})
  /\ \A c \in Breakable : (c \in conns /\ ~sockOk[c]) ~> (c \notin conns)

\* a chunk was broadcast to two clients: the write to the broken one failed
\* and closed it, the other has the chunk, and the broken one has been
\* removed and the count 1 reported
C27_Witness ==
  \E c, d \in Conns :
    /\ c # d
    /\ broken[c] /\ ~sockOk[c] /\ recv[c] = <<>>
    /\ c \notin conns /\ d \in conns /\ cbLast = 1
    /\ hpc[c] = "done"
    /\ recv[d] = <<Bin(1)>>
    /\ ppc # "done"
\* --------------------------------------------------------- ignored frames
\* C28: a frame read after the handshake that is not text, is not JSON or
\* has an unknown type changes nothing: the client set, the flow state, the
\* pty's input and size, every socket and what was written to it stay as
\* they were, and the handler is back at the top of its read loop on an open
\* connection; a valid frame that follows is processed (a ping is
\* answered, input reaches the pty of a read-write bridge).
IgnoredRead(c) == \E m \in IgnoredMsgs : LoopReadUpTo(c, {m}, MaxFrames)

ValidRead(c, type) ==
  LoopReadUpTo(c, {m \in FrameMsgs : m.type = type}, MaxFrames)

C28_IgnoredFrameChangesNothing ==
  [][\A c \in Conns :
       /\ IgnoredRead(c) =>
            /\ UNCHANGED <<conns, flow, ptyIn, ptySize, sockOk, recv, closeCode,
                           hinput, writing, cbLast, state>>
            /\ c \in conns' /\ sockOk'[c]
            /\ hpc' = [hpc EXCEPT ![c] = "loop"]
       /\ ValidRead(c, "ping") => hpc'[c] = "w_pong"
       /\ ValidRead(c, "input") /\ ~srv.readonly =>
            \E i \in ptyIn' : i.conn = c /\ i.data = "ls"]_vars

\* a client sent an ignored frame and then a ping, and has the pong
C28_Witness ==
  \E c \in Conns :
    /\ hmsgs[c] = 2 /\ hinput[c] = 0 /\ hpc[c] = "loop"
    /\ c \in conns /\ sockOk[c]
    /\ \A i \in ptyIn : i.conn # c
    /\ Len(recv[c]) = 3 /\ recv[c][3] = Txt("pong", "")

\* ------------------------------------------------------------ the registry
\* C29: what LoadSession and ListSessions return while SaveSession runs for
\* the same id is made of whole records only: every record returned is one
\* a SaveSession call wrote, complete, and not older than the one on disk
\* when the read began (LoadSession returns exactly that one); a record that
\* was on disk when the read began is never missing or unreadable.
WholeRecord(r) ==
  /\ r.id \in Sessions
  /\ r.updated \in 1..(sess[r.id].saves + 1)
  /\ r = Record(r.id, r.updated)
  /\ reader.lo[r.id] <= r.updated

Listed == {reader.out[i] : i \in 1..Len(reader.out)}

C29_ReadsSeeWholeRecords ==
  /\ reader.op \in {"load", "list"} => \A r \in Listed : WholeRecord(r)
  /\ reader.op = "load" /\ reader.lo[reader.id] > 0 =>
       /\ ~reader.err
       /\ reader.out = <<Record(reader.id, reader.lo[reader.id])>>
  /\ reader.op = "list" /\ reader.pc = "done" =>
       \A s \in Sessions : reader.lo[s] > 0 => \E r \in Listed : r.id = s

\* a listing made across a SaveSession holds the previous and the new record
C29_Witness ==
  /\ reader.op = "list" /\ reader.pc = "done"
  /\ {Record("a", 1), Record("a", 2)} \subseteq Listed

\* C30: PruneStaleSessions removes exactly the records whose pid is not
\* alive and leaves the records of live pids as they were; a second call
\* removes nothing and leaves the registry as the first call left it.
RecordIn(d, f) == Unmarshal(d[f].data)

C30_PruneRemovesExactlyStale ==
  /\ pruner.n >= 1 =>
       \A f \in Files :
         Parses(pruner.before[f]) =>
           IF ProcessAlive(RecordIn(pruner.before, f).pid)
             THEN pruner.after[f] = pruner.before[f]
             ELSE ~pruner.after[f].exists
  /\ pruner.n = 2 => pruner.removed = <<>> /\ dir = pruner.after

\* what PruneStaleSessions does when no killed session left its temporary
\* file behind: the statement above, with the ids it returns
NoLeftover == \A s \in Sessions : ~pruner.before[TempName(s)].exists

C30_PruneWithoutLeftovers ==
  NoLeftover =>
    /\ C30_PruneRemovesExactlyStale
    /\ pruner.n >= 1 =>
         \A s \in Sessions :
           (\E i \in 1..Len(pruner.first) : pruner.first[i] = s)
             <=> (pruner.before[Path(s)].exists /\ ~sess[s].alive)

C30_PrunedTwice ==
  pruner.n = 2 /\ NoLeftover /\ pruner.first # <<>>
  /\ \E s \in Sessions : sess[s].alive /\ dir[Path(s)].exists

\* ------------------------------------------------------------ the round trip
\* C31: for every state with a non-empty id that SaveSession accepted,
\* LoadSession of that id succeeds and returns the integer fields of the
\* state and the timestamps SaveSession wrote (StartedAt as given unless it
\* was the zero time, UpdatedAt the time of the save).
Tripped == sess.pc = "loaded" /\ sess.arg.id # "" /\ ~sess.saveErr

SameNumbers ==
  /\ ~reader.err
  /\ reader.state.pid = sess.arg.pid
  /\ reader.state.count = sess.arg.count
  /\ reader.state.started = sess.written.started
  /\ reader.state.updated = sess.written.updated
  /\ sess.arg.started # 0 => reader.state.started = sess.arg.started

C31_RoundTrip == Tripped => SameNumbers

\* the same for the ids that have no space around them
C31_RoundTripTrimmedId ==
  Tripped /\ TrimID(sess.arg.id) = sess.arg.id => SameNumbers

C31_TrippedTrimmed ==
  /\ Tripped /\ sess.arg.id = "a" /\ sess.arg.pid = 7 /\ sess.arg.started = 3
  /\ reader.state.updated = 2 /\ reader.state.id = "a"

\* ------------------------------------------------- the watermarks
\* C32: whatever pair (low, high) newFlowController is given, the controller
\* has 0 < low <= high: a non-positive input is replaced by its default
\* (512 KiB, 2 MiB), then a low above high is replaced by max(1, high / 2);
\* equal positive inputs are kept; the controller starts empty and running.
MaxOf(a, b) == IF a >= b THEN a ELSE b

C32_WatermarksOrdered ==
  fcOp.op = "new" =>
    LET low == fcOp.arg[1]
        high == fcOp.arg[2]
        h == IF high <= 0 THEN 2 * 1024 * 1024 ELSE high
        l == IF low <= 0 THEN 512 * 1024 ELSE low
    IN /\ 0 < fc.low /\ fc.low <= fc.high
       /\ fc.high = h
       /\ fc.low = IF l > h THEN MaxOf(1, h \div 2) ELSE l
       /\ (low = high /\ low > 0) => (fc.low = low /\ fc.high = high)
       /\ fc.pending = 0 /\ ~fc.paused

\* low above a high of 1: half of high is 0, and low becomes 1
C32_Witness == fcOp.op = "new" /\ fcOp.arg = <<5, 1>> /\ fc.low = 1 /\ fc.high = 1

\* ------------------------------------------------------ the pty ends
\* the positions of the frames of type t in what a client received
Positions(r, t) == {i \in 1..Len(r) : r[i].t = t}

\* the positions of the session-ended frames in what a client received
Ended(r) == {i \in 1..Len(r) : r[i] = SessionEnded}

\* the pump is inside the broadcast of the chunk it read
InBinary == ppc \in {"bb_snap", "bb_write", "bb_sent"}

\* the pump has a flow_pause frame to broadcast for the chunk it read
PauseDue == bframe[Pump] = FlowPause

\* C33: when the pty read returns an error or EOF, the pump broadcasts the
\* bytes returned with that read (if any), then one info "Session ended"
\* frame, and exits without another read: every client receives at most one
\* such frame and no binary frame after it, the frame is sent only after the
\* broadcast of the last chunk is over, and the pump does end.
C33_ReadErrorEndsPump ==
  /\ [](\A c \in Conns :
          /\ Cardinality(Ended(recv[c])) <= 1
          /\ \A i \in Ended(recv[c]), j \in Positions(recv[c], "bin") : j < i)
  /\ [](bframe[Pump] = SessionEnded => pcur.err /\ ppc \in {"bt_snap", "bt_write"})
  /\ [](ppc = "done" => pcur.err /\ bframe[Pump] = NoFrame)
  /\ [][/\ pcur.err => pcur' = pcur /\ chunksRead' = chunksRead
        /\ (pcur'.err /\ ~pcur.err /\ pcur'.n > 0) =>
              ppc' = "bb_snap" /\ bframe'[Pump] = Bin(pcur'.id)
        /\ (pcur.err /\ (InBinary \/ PauseDue)) => ppc' # "done"
        /\ ppc = "done" =>
              \A c \in Conns :
                 \/ recv'[c] = recv[c]
                 \/ LET fr == recv'[c][Len(recv'[c])]
                    IN fr.t # "bin" /\ fr # SessionEnded]_vars
  /\ (pcur.err ~> ppc = "done")

\* a client got the last chunk, returned together with the error, and then
\* the session-ended frame; the pump is gone
C33_Witness ==
  /\ ppc = "done" /\ pcur.err /\ pcur.n > 0
  /\ \E c \in Conns :
       /\ Len(recv[c]) >= 2
       /\ recv[c][Len(recv[c])] = SessionEnded
       /\ recv[c][Len(recv[c]) - 1] = Bin(pcur.id)

\* ------------------------------------------------- bytes accounted
\* the clients the chunk the pump is broadcasting has been written to
GotChunk == {c \in Conns : \E i \in 1..Len(recv[c]) : recv[c][i] = Bin(pcur.id)}

\* C34: broadcastBinary accounts a chunk of n bytes once: when it returns,
\* pending has grown by exactly n if the write to at least one client
\* succeeded, however many clients got the chunk; the flow state is left as
\* it was when the client set was empty or every write failed, and the
\* writes themselves do not touch it.
C34_ChunkCountedOnce ==
  [][/\ (ppc = "bb_sent" /\ ppc' # "bb_sent") =>
          IF GotChunk # {}
            THEN /\ flow'.pending = flow.pending + pcur.n
                 /\ flow'.low = flow.low /\ flow'.high = flow.high
            ELSE flow' = flow
     /\ (ppc = "bb_snap" /\ ppc' # "bb_snap" /\ conns = {}) =>
          flow' = flow /\ ppc' \in {"ctx", "bt_snap"}
     /\ (ppc = "bb_write" /\ bcur'[Pump] # bcur[Pump]) => flow' = flow]_vars

\* a chunk of 3 bytes went to both clients and pending is 3
C34_Witness ==
  /\ ppc = "bt_snap" /\ bframe[Pump] = FlowPause
  /\ pcur.id = 1 /\ pcur.n = 3 /\ flow.pending = 3
  /\ GotChunk = Conns

\* a chunk whose every write failed left the flow state alone
C34_AllFailed ==
  /\ ppc = "ctx" /\ pcur.id = 1 /\ bsnap[Pump] = {} /\ psent = 0
  /\ GotChunk = {} /\ authed[1] /\ broken[1] /\ ~sockOk[1] /\ flow.pending = 0

\* ------------------------------------------------- bounded backlog
\* C35: in every state pending is at least 0 and at most the high watermark
\* plus the size of the pump's read buffer, whatever the clients acknowledge
\* (a negative count, zero, more than is pending) and however their acks
\* interleave with the pump; outside a pause it is at most the high watermark.
C35_PendingBounded ==
  /\ 0 <= flow.pending
  /\ flow.pending <= flow.high + ReadBufferSize
  /\ ~flow.paused => flow.pending <= flow.high
  /\ 0 < flow.low /\ flow.low <= flow.high

\* the bound is met: a full buffer was sent on top of a full window, and a
\* client has acknowledged by then
C35_Witness ==
  /\ flow.pending = flow.high + ReadBufferSize /\ flow.paused
  /\ \E c \in Conns : hmsgs[c] > 0

\* ------------------------------------------------ paused and alone
\* a handler is inside removeConn
Removing(c) == hpc[c] \in {"rm", "rm_close", "rm_reset"}

\* C36: the controller is never paused while the client set is empty and no
\* removeConn is in progress: the pump never sits in waitForFlowResume,
\* its broadcasts over, with nobody connected who could acknowledge.
C36_NeverPausedAlone ==
  (conns = {} /\ (\A c \in Conns : ~Removing(c)) /\ ppc = "wait") => ~flow.paused

\* ------------------------------------------------ order of flow frames
FlowFrames(c) == SelectSeq(recv[c], LAMBDA fr : fr.t \in {"flow_pause", "flow_resume"})

\* no broadcastBinary or broadcastText is running
NoBroadcast ==
  /\ ppc \in {"ctx", "wait", "read", "done"}
  /\ \A c \in Conns : hpc[c] \notin {"bt_snap", "bt_write"}

\* no client has left or is leaving, so the controller was never reset
NoneLeft == \A c \in Conns : ~Removing(c) /\ hpc[c] # "done"

\* C37: the clients receive the flow frames in the order of the controller's
\* transitions: when no broadcast is in flight (and no client ever left),
\* the last flow frame a connected client received tells what the paused
\* flag is.
C37_LastFlowFrameAgrees ==
  (NoBroadcast /\ NoneLeft) =>
     \A c \in conns :
        LET ff == FlowFrames(c)
        IN ff # <<>> => (ff[Len(ff)].t = "flow_pause" <=> flow.paused)

\* ------------------------------------------------ auth_ok comes first
\* C38: the first frame an admitted client receives is auth_ok: neither a
\* binary frame of terminal output nor a broadcast text frame reaches it
\* before.
C38_AuthOkFirst ==
  \A c \in Conns : (authed[c] /\ recv[c] # <<>>) => recv[c][1].t = "auth_ok"

\* ------------------------------------------------ read-only and resize
\* the handler of c reads the frame m
ReadMsg(c, m) == LoopReadWith(c, {m})

MsgsOfType(type) == {m \in ClientMsgs : m.type = type}

\* authenticate accepts the auth frame of c
AuthAccepted(c) == hpc[c] = "auth" /\ hin[c] # <<>> /\ hpc'[c] = "admit"

\* C39: a read-only bridge blocks input and nothing else: a resize message
\* and the size carried in an accepted auth frame are applied to the pty
\* (Terminal.Resize ignores a non-positive dimension), a ping is answered,
\* and only an input frame gets the readonly notice and leaves the pty alone.
C39_ReadOnlyBlocksOnlyInput ==
  [][\A c \in Conns : srv.readonly =>
       /\ \A m \in MsgsOfType("resize") :
            ReadMsg(c, m) =>
              /\ ptySize' = Resize(ptySize, m.cols, m.rows)
              /\ hpc'[c] = "loop"
              /\ UNCHANGED <<ptyIn, recv>>
       /\ AuthAccepted(c) =>
            ptySize' = Resize(ptySize, hin[c][1].cols, hin[c][1].rows)
       /\ \A m \in MsgsOfType("ping") : ReadMsg(c, m) => hpc'[c] = "w_pong"
       /\ \A m \in MsgsOfType("input") :
            ReadMsg(c, m) => hpc'[c] = "w_blocked" /\ UNCHANGED <<ptyIn, ptySize>>]_vars

\* on a read-only bridge the size of the auth frame, then the size of a
\* resize message, reached the pty, and no input did
C39_Witness ==
  /\ srv.readonly /\ ptySize = <<100, 40>> /\ ptyIn = {}
  /\ \E c \in Conns : authed[c] /\ hmsgs[c] = 1 /\ hpc[c] = "loop"

\* ------------------------------------------------ one entry per session
\* C40: a ListSessions that runs while sessions save their records returns
\* at most one entry per session id: the temporary file of a SaveSession in
\* progress is never returned as a session.
C40_OneEntryPerSession ==
  (reader.op = "list" /\ reader.pc = "done") =>
     \A i, j \in 1..Len(reader.out) :
        reader.out[i].id = reader.out[j].id => i = j

====
